---- MODULE Spec2Model ----
(***************************************************************************)
(* A model of the prefix calculator's evaluator: the Code tree and its     *)
(* eval, the Environment (variable table, function table), Function::eval  *)
(* and the recursion checker that guards Defun::eval.                      *)
(***************************************************************************)
EXTENDS Integers, Sequences, FiniteSets, TLC

VARIABLES
    vars,     \* the top-level Environment's variable table
    funcs,    \* the top-level Environment's function table
    res,      \* the result of the last evaluation
    op,       \* the Code tree evaluated last
    pvars,    \* the variable table the last evaluation started from
    pfuncs,   \* the function table the last evaluation started from
    written,  \* per name, the value of the driver's last successful var / =
    pc,       \* "read": the driver waits for input; "done": it has evaluated op
    tokens,   \* the Lexer's pending token buffer
    pin       \* the last call of the Parser: its text, the buffer before, its outcome

state == <<vars, funcs, res, op, pvars, pfuncs, written, pc, tokens, pin>>

(***************************************************************************)
(* Bounds of the model.                                                    *)
(***************************************************************************)
\* number of function names a session of the checker specification uses
NumFuncs == 3
\* longest function body, in body expressions, of the checker specification
RecMaxBody == 1
\* deepest nesting of running function bodies the evaluator is followed to
MaxDepth == 3
\* longest function body, in body expressions, of the session specification
MaxBody == 1
\* longest argument list of a call of the session specification
MaxArgs == 1
\* the longest body of the functions of SpecBody
BodyLen == 2
\* the longest text, in words, of one parse call of SpecParse
TextLen == 2
\* the longest token buffer SpecParse lets a parse call build
MaxTokens == 5
\* the longest definition, in words, that SpecSplit feeds in pieces
SplitLen == 8
\* the most expressions on one input line, and the most lines in one file
LineLen == 2
FileLen == 2

(***************************************************************************)
(* Value (pcalc_value.rs): a tagged union of a number and a boolean.       *)
(* A boolean is kept as 1 / 0 under the tag "Bool".                        *)
(***************************************************************************)
from_num(n) == [t |-> "Num", v |-> n]

from_bool(b) == [t |-> "Bool", v |-> IF b THEN 1 ELSE 0]

is_num(x) == x.t = "Num"

is_bool(x) == x.t = "Bool"

(***************************************************************************)
(* Results.  A ValueResult is Ok(value) or Err(message); the message is    *)
(* kept as the format string's name and its arguments.  `st` is the        *)
(* environment the evaluation leaves behind (Rust's `?` returns early but  *)
(* keeps every mutation made so far) with the observations `obs`.          *)
(***************************************************************************)
NoErr == [msg |-> "", a |-> "", b |-> {}]

\* an error message with one name in it
ErrMsg(m, a) == [msg |-> m, a |-> a, b |-> {}]

\* an error message with two names; the second is one of `bs` (the name a
\* HashSet iteration happened to yield first)
ErrMsg2(m, a, bs) == [msg |-> m, a |-> a, b |-> bs]

Ok(v, st) == [ok |-> TRUE, val |-> v, err |-> NoErr, st |-> st]

Err(e, st) == [ok |-> FALSE, val |-> from_num(0), err |-> e, st |-> st]

(***************************************************************************)
(* Tables are functions from the bound names.                              *)
(***************************************************************************)
EmptyTable == [n \in {} |-> 0]

Put(tab, n, x) == [m \in DOMAIN tab \cup {n} |-> IF m = n THEN x ELSE tab[m]]

\* VariableTable::get
VarGet(table, name) ==
    IF name \in DOMAIN table
    THEN [ok |-> TRUE, val |-> table[name], err |-> NoErr, table |-> table]
    ELSE [ok |-> FALSE, val |-> from_num(0),
          err |-> ErrMsg("Unknown variable", name), table |-> table]

\* a set that leaves the table as it is
VarSetKeep(table, name, value) ==
    [ok |-> TRUE, val |-> value, err |-> NoErr, table |-> table]

\* a def that overwrites a bound name, as set does
VarDefOverwrite(table, name, value) ==
    [ok |-> TRUE, val |-> value, err |-> NoErr, table |-> Put(table, name, value)]

\* VariableTable::def
VarDef(table, name, value) ==
    IF name \notin DOMAIN table
    THEN [ok |-> TRUE, val |-> value, err |-> NoErr, table |-> Put(table, name, value)]
    ELSE [ok |-> FALSE, val |-> from_num(0),
          err |-> ErrMsg("Duplicate variable definition", name), table |-> table]

\* VariableTable::set
VarSet(table, name, value) ==
    IF name \in DOMAIN table
    THEN [ok |-> TRUE, val |-> value, err |-> NoErr, table |-> Put(table, name, value)]
    ELSE [ok |-> FALSE, val |-> from_num(0),
          err |-> ErrMsg("Unknown variable", name), table |-> table]

\* FunctionTable::def: overwrite the entry of the name, or insert it
FuncDef(table, name, func) == Put(table, name, func)

(***************************************************************************)
(* Code nodes (pcalc_code.rs).  Every node is a record of one shape.       *)
(***************************************************************************)
Node(kind, name, value, params, kids) ==
    [kind |-> kind, name |-> name, value |-> value, params |-> params, kids |-> kids]

Literal(value) == Node("Literal", "", value, <<>>, <<>>)

GetVar(name) == Node("GetVar", name, from_num(0), <<>>, <<>>)

DefVar(name, code) == Node("DefVar", name, from_num(0), <<>>, <<code>>)

SetVar(name, code) == Node("SetVar", name, from_num(0), <<>>, <<code>>)

BinaryOp(opname, lhs, rhs) == Node("BinaryOp", opname, from_num(0), <<>>, <<lhs, rhs>>)

UnaryOp(opname, arg) == Node("UnaryOp", opname, from_num(0), <<>>, <<arg>>)

\* Conditional::new; the kids are cond, true_code, false_code
Conditional(cond, true_code, false_code) ==
    Node("Conditional", "", from_num(0), <<>>, <<cond, true_code, false_code>>)

\* Conditional::when: the false_code is the literal false
when(cond, true_code) == Conditional(cond, true_code, Literal(from_bool(FALSE)))

Defun(name, params, body) == Node("Defun", name, from_num(0), params, body)

Funcall(name, args) == Node("Funcall", name, from_num(0), <<>>, args)

\* XPrint::new
XPrint(expr) == Node("XPrint", "", from_num(0), <<>>, <<expr>>)

\* NoOp::new, the placeholder of an unfinished definition
NoOp == Node("NoOp", "", from_num(0), <<>>, <<>>)

\* Code::is_funcall: true of Funcall alone
is_funcall(c) == c.kind = "Funcall"

\* Function: the parameters and the body a Defun node holds
Function(params, body) == [params |-> params, body |-> body]

(***************************************************************************)
(* Environment (pcalc_environment.rs): a variable table and a pointer to   *)
(* a function table.  `shared` tells whether another Environment holds the *)
(* same pointer (get_mut yields the table only to a sole owner).  `obs`    *)
(* collects what an evaluation was seen to do.                             *)
(***************************************************************************)
\* Environment::new (and Default::default)
Environment_new(obs) ==
    [vars |-> EmptyTable, funcs |-> EmptyTable, shared |-> FALSE, obs |-> obs]

\* Environment::with_parent_funcs
with_parent_funcs(parent) ==
    [vars |-> EmptyTable, funcs |-> parent.funcs, shared |-> TRUE, obs |-> parent.obs]

\* VariableTable::len, FunctionTable::len: the entries of the HashMap
TableLen(table) == Cardinality(DOMAIN table)

\* VariableTable::is_empty, FunctionTable::is_empty
TableIsEmpty(table) == DOMAIN table = {}

\* Environment::len
Environment_len(st) == TableLen(st.vars) + TableLen(st.funcs)

\* Environment::is_empty
Environment_is_empty(st) == TableIsEmpty(st.vars) /\ TableIsEmpty(st.funcs)

\* a reset that clears the variables only
Environment_reset_vars(st) == [st EXCEPT !.vars = EmptyTable]

\* Environment::reset
Environment_reset(st) == [st EXCEPT !.vars = EmptyTable, !.funcs = EmptyTable]

\* to_num / to_bool of Value
to_num(x, st) ==
    IF is_num(x) THEN Ok(x, st) ELSE Err(ErrMsg("not a number", ""), st)

to_bool(x, st) ==
    IF is_bool(x) THEN Ok(x, st) ELSE Err(ErrMsg("not a boolean", ""), st)

\* add (pcalc_binary_ops.rs): lhs.to_num()? + rhs.to_num()?
add(lhs, rhs, st) ==
    IF ~to_num(lhs, st).ok THEN to_num(lhs, st)
    ELSE IF ~to_num(rhs, st).ok THEN to_num(rhs, st)
    ELSE Ok(from_num(lhs.v + rhs.v), st)

\* the operand both arithmetic functions reject first, if any: the ? of the
\* left to_num is reached before the right one
NotNum(lhs, rhs, st) == IF ~is_num(lhs) THEN to_num(lhs, st) ELSE to_num(rhs, st)

BothNum(lhs, rhs) == is_num(lhs) /\ is_num(rhs)

\* subtract, multiply: lhs.to_num()? - rhs.to_num()?, lhs.to_num()? * rhs.to_num()?
subtract(lhs, rhs, st) ==
    IF BothNum(lhs, rhs) THEN Ok(from_num(lhs.v - rhs.v), st) ELSE NotNum(lhs, rhs, st)

multiply(lhs, rhs, st) ==
    IF BothNum(lhs, rhs) THEN Ok(from_num(lhs.v * rhs.v), st) ELSE NotNum(lhs, rhs, st)

\* divide, remainder, power on operands whose f64 result is a whole number
\* that the integer operators give too (Representable)
divide(lhs, rhs, st) ==
    IF BothNum(lhs, rhs) THEN Ok(from_num(lhs.v \div rhs.v), st) ELSE NotNum(lhs, rhs, st)

remainder(lhs, rhs, st) ==
    IF BothNum(lhs, rhs) THEN Ok(from_num(lhs.v % rhs.v), st) ELSE NotNum(lhs, rhs, st)

power(lhs, rhs, st) ==
    IF BothNum(lhs, rhs) THEN Ok(from_num(lhs.v ^ rhs.v), st) ELSE NotNum(lhs, rhs, st)

\* maximum, minimum: lhs.to_num()?.max(rhs.to_num()?)
maximum(lhs, rhs, st) ==
    IF BothNum(lhs, rhs)
    THEN Ok(from_num(IF lhs.v >= rhs.v THEN lhs.v ELSE rhs.v), st)
    ELSE NotNum(lhs, rhs, st)

minimum(lhs, rhs, st) ==
    IF BothNum(lhs, rhs)
    THEN Ok(from_num(IF lhs.v <= rhs.v THEN lhs.v ELSE rhs.v), st)
    ELSE NotNum(lhs, rhs, st)

\* PartialEq for Value: values of different tags are not equal
ValueEq(x, y) == x.t = y.t /\ x.v = y.v

\* PartialOrd for Value: partial_cmp is None across tags, so every ordering
\* test across tags is false; false < true within Bool
SameTag(x, y) == x.t = y.t

equal(lhs, rhs, st) == Ok(from_bool(ValueEq(lhs, rhs)), st)

not_equal(lhs, rhs, st) == Ok(from_bool(~ValueEq(lhs, rhs)), st)

less(lhs, rhs, st) == Ok(from_bool(SameTag(lhs, rhs) /\ lhs.v < rhs.v), st)

less_equal(lhs, rhs, st) == Ok(from_bool(SameTag(lhs, rhs) /\ lhs.v <= rhs.v), st)

greater(lhs, rhs, st) == Ok(from_bool(SameTag(lhs, rhs) /\ lhs.v > rhs.v), st)

greater_equal(lhs, rhs, st) == Ok(from_bool(SameTag(lhs, rhs) /\ lhs.v >= rhs.v), st)

\* logical_and: lhs.to_bool()? && rhs.to_bool()?  -- && does not evaluate its
\* right operand, the ? included, when the left one is false
logical_and(lhs, rhs, st) ==
    IF ~is_bool(lhs) THEN to_bool(lhs, st)
    ELSE IF lhs.v = 0 THEN Ok(from_bool(FALSE), st)
    ELSE IF ~is_bool(rhs) THEN to_bool(rhs, st)
    ELSE Ok(from_bool(rhs.v = 1), st)

\* logical_or: lhs.to_bool()? || rhs.to_bool()?  -- || does not evaluate its
\* right operand when the left one is true
logical_or(lhs, rhs, st) ==
    IF ~is_bool(lhs) THEN to_bool(lhs, st)
    ELSE IF lhs.v = 1 THEN Ok(from_bool(TRUE), st)
    ELSE IF ~is_bool(rhs) THEN to_bool(rhs, st)
    ELSE Ok(from_bool(rhs.v = 1), st)

\* the native function bop2ftn binds to an operator name
ApplyBinary(opname, lhs, rhs, st) ==
    CASE opname = "+" -> add(lhs, rhs, st)
      [] opname = "-" -> subtract(lhs, rhs, st)
      [] opname = "*" -> multiply(lhs, rhs, st)
      [] opname = "/" -> divide(lhs, rhs, st)
      [] opname = "%" -> remainder(lhs, rhs, st)
      [] opname = "^" -> power(lhs, rhs, st)
      [] opname = "max" -> maximum(lhs, rhs, st)
      [] opname = "min" -> minimum(lhs, rhs, st)
      [] opname = "==" -> equal(lhs, rhs, st)
      [] opname = "!=" -> not_equal(lhs, rhs, st)
      [] opname = "<" -> less(lhs, rhs, st)
      [] opname = "<=" -> less_equal(lhs, rhs, st)
      [] opname = ">" -> greater(lhs, rhs, st)
      [] opname = ">=" -> greater_equal(lhs, rhs, st)
      [] opname = "and" -> logical_and(lhs, rhs, st)
      [] opname = "or" -> logical_or(lhs, rhs, st)
      [] OTHER -> Err(ErrMsg("Unknown binary op", opname), st)

\* logical_not (pcalc_unary_ops.rs): !val.to_bool()?
logical_not(val, st) ==
    IF ~is_bool(val) THEN to_bool(val, st) ELSE Ok(from_bool(val.v = 0), st)

\* Value::as_bool, which Conditional::eval uses as a plain bool (no ? follows
\* it) and bool_cast hands to Value::from_bool: a boolean as it is, a number
\* as "is not zero"
as_bool(x) == IF is_bool(x) THEN x.v = 1 ELSE x.v /= 0

\* the native function uop2ftn binds to an operator name; of the unary
\* operators the model evaluates `not`
ApplyUnary(opname, val, st) ==
    CASE opname = "not" -> logical_not(val, st)
      [] OTHER -> Err(ErrMsg("Unknown unary op", opname), st)

(***************************************************************************)
(* The recursion checker (pcalc_recursive_check.rs).                       *)
(***************************************************************************)
\* the names of the call nodes among a body's expressions, in body order:
\* body().iter().filter(|c| c.is_funcall()).map(|c| c.get_name())
CallNames(body) ==
    LET calls == SelectSeq(body, is_funcall)
    IN [i \in 1..Len(calls) |-> calls[i].name]

Range(seq) == {seq[i] : i \in 1..Len(seq)}

\* a self check that rejects every body that calls a function
check_self_recursive_any(name, func) ==
    CallNames(func.body) /= <<>>

\* check_self_recursive: TRUE when the definition is rejected
check_self_recursive(name, func) ==
    Cardinality({i \in 1..Len(CallNames(func.body)) : CallNames(func.body)[i] = name}) > 0

\* the loop of check_cross_recursive from one worklist state: the set of its
\* possible ends, over every order in which the HashSet yields its names
RECURSIVE CrossVisit(_, _, _, _)
CrossVisit(to_visit, visited, name, fs) ==
    IF to_visit = {} THEN {[rejected |-> FALSE, nm |-> ""]}
    ELSE UNION {
        LET tv  == to_visit \ {nm}
            vis == visited \cup {nm}
        IN  IF nm \in DOMAIN fs
            THEN LET calls == CallNames(fs[nm].body)
                 IN  IF \E i \in 1..Len(calls) : calls[i] = name
                     THEN {[rejected |-> TRUE, nm |-> nm]}
                     ELSE CrossVisit(tv \cup {c \in Range(calls) : c \notin vis},
                                     vis, name, fs)
            ELSE CrossVisit(tv, vis, name, fs)
        : nm \in to_visit }

\* check_cross_recursive: the set of its possible results
check_cross_recursive(name, func, fs) ==
    CrossVisit({n \in Range(CallNames(func.body)) : n /= "" /\ n /= name}, {}, name, fs)

CrossRejected(name, func, fs) ==
    \E o \in check_cross_recursive(name, func, fs) : o.rejected

CrossNames(name, func, fs) ==
    {o.nm : o \in {x \in check_cross_recursive(name, func, fs) : x.rejected}}

\* check_dual_recursive: the first name called by the body, other than `name`,
\* whose installed function calls `name`
check_dual_recursive(name, func, fs) ==
    LET all    == CallNames(func.body)
        other(n) == n /= "" /\ n /= name
        fcalls == SelectSeq(all, other)
        hit(i) == /\ fcalls[i] \in DOMAIN fs
                  /\ name \in Range(CallNames(fs[fcalls[i]].body))
        hits   == {i \in 1..Len(fcalls) : hit(i)}
    IN  IF hits = {} THEN [rejected |-> FALSE, nm |-> ""]
        ELSE [rejected |-> TRUE, nm |-> fcalls[CHOOSE i \in hits : \A j \in hits : i <= j]]

\* one turn of the loop of check_cross_recursive as it is left: the name
\* taken, the visited set after it was marked and the names put on the worklist
Turn(nm, visited, ins) == [nm |-> nm, visited |-> visited, ins |-> ins]

CrossEnd(rejected, nm, trace, cut) ==
    [rejected |-> rejected, nm |-> nm, trace |-> trace, cut |-> cut]

RECURSIVE CrossRuns(_, _, _, _, _, _)

\* a loop that puts every called name on the worklist, visited or not
CrossRunsRevisit(to_visit, visited, name, fs, trace, fuel) ==
    IF to_visit = {} THEN {CrossEnd(FALSE, "", trace, FALSE)}
    ELSE IF fuel = 0 THEN {CrossEnd(FALSE, "", trace, TRUE)}
    ELSE UNION {
        LET tv  == to_visit \ {nm}
            vis == visited \cup {nm}
        IN  IF nm \in DOMAIN fs
            THEN LET calls == CallNames(fs[nm].body)
                     new   == Range(calls)
                 IN  IF \E i \in 1..Len(calls) : calls[i] = name
                     THEN {CrossEnd(TRUE, nm, Append(trace, Turn(nm, vis, {})), FALSE)}
                     ELSE CrossRuns(tv \cup new, vis, name, fs,
                                    Append(trace, Turn(nm, vis, new)), fuel - 1)
            ELSE CrossRuns(tv, vis, name, fs, Append(trace, Turn(nm, vis, {})), fuel - 1)
        : nm \in to_visit }

\* a loop that rejects on a name that is not installed
CrossRunsAbsent(to_visit, visited, name, fs, trace, fuel) ==
    IF to_visit = {} THEN {CrossEnd(FALSE, "", trace, FALSE)}
    ELSE IF fuel = 0 THEN {CrossEnd(FALSE, "", trace, TRUE)}
    ELSE UNION {
        LET tv  == to_visit \ {nm}
            vis == visited \cup {nm}
        IN  IF nm \in DOMAIN fs
            THEN LET calls == CallNames(fs[nm].body)
                     new   == {c \in Range(calls) : c \notin vis}
                 IN  IF \E i \in 1..Len(calls) : calls[i] = name
                     THEN {CrossEnd(TRUE, nm, Append(trace, Turn(nm, vis, {})), FALSE)}
                     ELSE CrossRuns(tv \cup new, vis, name, fs,
                                    Append(trace, Turn(nm, vis, new)), fuel - 1)
            ELSE {CrossEnd(TRUE, nm, Append(trace, Turn(nm, vis, {})), FALSE)}
        : nm \in to_visit }

\* a loop that ends, accepting, at a name that is not installed
CrossRunsStop(to_visit, visited, name, fs, trace, fuel) ==
    IF to_visit = {} THEN {CrossEnd(FALSE, "", trace, FALSE)}
    ELSE IF fuel = 0 THEN {CrossEnd(FALSE, "", trace, TRUE)}
    ELSE UNION {
        LET tv  == to_visit \ {nm}
            vis == visited \cup {nm}
        IN  IF nm \in DOMAIN fs
            THEN LET calls == CallNames(fs[nm].body)
                     new   == {c \in Range(calls) : c \notin vis}
                 IN  IF \E i \in 1..Len(calls) : calls[i] = name
                     THEN {CrossEnd(TRUE, nm, Append(trace, Turn(nm, vis, {})), FALSE)}
                     ELSE CrossRuns(tv \cup new, vis, name, fs,
                                    Append(trace, Turn(nm, vis, new)), fuel - 1)
            ELSE {CrossEnd(FALSE, "", Append(trace, Turn(nm, vis, {})), FALSE)}
        : nm \in to_visit }

\* the while loop of check_cross_recursive with the turns it took: the set of
\* its runs over every order in which the HashSet yields its names; a run
\* that has not ended after `fuel` turns is cut
CrossRuns(to_visit, visited, name, fs, trace, fuel) ==
    IF to_visit = {} THEN {CrossEnd(FALSE, "", trace, FALSE)}
    ELSE IF fuel = 0 THEN {CrossEnd(FALSE, "", trace, TRUE)}
    ELSE UNION {
        LET tv  == to_visit \ {nm}
            vis == visited \cup {nm}
        IN  IF nm \in DOMAIN fs
            THEN LET calls == CallNames(fs[nm].body)
                     new   == {c \in Range(calls) : c \notin vis}
                 IN  IF \E i \in 1..Len(calls) : calls[i] = name
                     THEN {CrossEnd(TRUE, nm, Append(trace, Turn(nm, vis, {})), FALSE)}
                     ELSE CrossRuns(tv \cup new, vis, name, fs,
                                    Append(trace, Turn(nm, vis, new)), fuel - 1)
            ELSE CrossRuns(tv, vis, name, fs, Append(trace, Turn(nm, vis, {})), fuel - 1)
        : nm \in to_visit }

\* check_cross_recursive with its turns: the worklist starts as the names the
\* body calls, `name` and the empty name left out
CrossCheckRuns(name, func, fs, fuel) ==
    CrossRuns({n \in Range(CallNames(func.body)) : n /= "" /\ n /= name}, {}, name, fs,
              <<>>, fuel)

(***************************************************************************)
(* Evaluation (pcalc_code.rs, pcalc_function.rs).  Eval(code, st, act, d)  *)
(* is code.eval(env): st is the environment, act the function bodies that  *)
(* are running, d the number of further bodies that may be entered.        *)
(***************************************************************************)
Observe(st, what) == [st EXCEPT !.obs.seen = @ \cup what]

\* the evaluation enters part i (a body expression, an operand, a branch) of a
\* node, d bodies below the depth followed
Logged(st, ev, i, d) ==
    [st EXCEPT !.obs.log = Append(@, [ev |-> ev, i |-> i, d |-> d])]

\* the evaluation binds name in a table
Keyed(st, name) == [st EXCEPT !.obs.keys = @ \cup {name}]

\* the outcome when the host stack is exhausted by nested calls
Overflow(st) == Err(ErrMsg("stack overflow", ""), Observe(st, {"overflow"}))

\* Environment::def_func: get_mut(&mut self.funcs).expect("Missing funcs table")
\* panics unless this environment is the sole owner of the table
def_func(st, name, func) ==
    IF st.shared
    THEN Err(ErrMsg("panic: Missing funcs table", ""), Observe(st, {"panic"}))
    ELSE Ok(from_bool(TRUE), Keyed([st EXCEPT !.funcs = FuncDef(@, name, func)], name))

\* a callee environment that starts from the caller's variables
FuncEnvCallerVars(call_env) ==
    [Environment_new(call_env.obs) EXCEPT !.vars = call_env.vars]

\* line 25 of Function::eval: let mut func_env: Environment = Default::default()
FuncEnv(call_env) == Environment_new(call_env.obs)

\* a Defun::eval that installs the function before it runs the checks
DefunEvalEager(code, st) ==
    LET func == Function(code.params, code.kids)
        inst == def_func(st, code.name, func)
    IN  IF check_self_recursive(code.name, func)
        THEN Err(ErrMsg("Self recursive function", code.name), inst.st)
        ELSE IF CrossRejected(code.name, func, st.funcs)
        THEN Err(ErrMsg2("Cross recursive functions", code.name,
                         CrossNames(code.name, func, st.funcs)), inst.st)
        ELSE inst

\* Defun::eval
DefunEval(code, st) ==
    LET func == Function(code.params, code.kids)
    IN  IF check_self_recursive(code.name, func)
        THEN Err(ErrMsg("Self recursive function", code.name), st)
        ELSE IF CrossRejected(code.name, func, st.funcs)
        THEN Err(ErrMsg2("Cross recursive functions", code.name,
                         CrossNames(code.name, func, st.funcs)), st)
        ELSE def_func(st, code.name, func)

RECURSIVE Eval(_, _, _, _)
RECURSIVE BindArgs(_, _, _, _, _, _, _)
RECURSIVE EvalBody(_, _, _, _, _, _)
RECURSIVE FunctionEval(_, _, _, _, _, _)
RECURSIVE ConditionalEval(_, _, _, _)

\* a binding loop that evaluates the arguments after one that failed and
\* then returns the first error
BindArgsGoOn(i, func, args, call_env, func_env, act, d) ==
    IF i > Len(args) THEN [ok |-> TRUE, err |-> NoErr, call_env |-> call_env, func_env |-> func_env]
    ELSE LET r == Eval(args[i], call_env, act, d)
         IN  IF ~r.ok
             THEN LET rest == BindArgs(i + 1, func, args, r.st, func_env, act, d)
                  IN  [ok |-> FALSE, err |-> r.err, call_env |-> rest.call_env,
                       func_env |-> func_env]
             ELSE LET b == VarDef(func_env.vars, func.params[i], r.val)
                  IN  IF ~b.ok
                      THEN [ok |-> FALSE, err |-> b.err, call_env |-> r.st, func_env |-> func_env]
                      ELSE BindArgs(i + 1, func, args, Keyed(r.st, func.params[i]),
                                    [func_env EXCEPT !.vars = b.table], act, d)

\* the loop at lines 26-28 of Function::eval from argument i on: each argument
\* is evaluated in call_env and bound at once in func_env
BindArgs(i, func, args, call_env, func_env, act, d) ==
    IF i > Len(args) THEN [ok |-> TRUE, err |-> NoErr, call_env |-> call_env, func_env |-> func_env]
    ELSE LET r == Eval(args[i], call_env, act, d)
         IN  IF ~r.ok
             THEN [ok |-> FALSE, err |-> r.err, call_env |-> r.st, func_env |-> func_env]
             ELSE LET b == VarDef(func_env.vars, func.params[i], r.val)
                  IN  IF ~b.ok
                      THEN [ok |-> FALSE, err |-> b.err, call_env |-> r.st, func_env |-> func_env]
                      ELSE BindArgs(i + 1, func, args, Keyed(r.st, func.params[i]),
                                    [func_env EXCEPT !.vars = b.table], act, d)

\* a body loop that goes on to the next expression when one fails
EvalBodySkipFailed(i, body, result, func_env, act, d) ==
    IF i > Len(body) THEN Ok(result, func_env)
    ELSE LET r == Eval(body[i], Logged(func_env, "body", i, d), act, d)
         IN  IF ~r.ok THEN EvalBody(i + 1, body, result, r.st, act, d)
             ELSE EvalBody(i + 1, body, r.val, r.st, act, d)

\* the loop at lines 30-33 of Function::eval from body expression i on
EvalBody(i, body, result, func_env, act, d) ==
    IF i > Len(body) THEN Ok(result, func_env)
    ELSE LET r == Eval(body[i], Logged(func_env, "body", i, d), act, d)
         IN  IF ~r.ok THEN r
             ELSE EvalBody(i + 1, body, r.val, r.st, act, d)

\* a Function::eval that tests the argument count after the binding loop, which
\* zip stops at the shorter of the two lists
FunctionEvalLate(fname, func, args, call_env, act, d) ==
    LET n == IF Len(args) < Len(func.params) THEN Len(args) ELSE Len(func.params)
        fe0 == FuncEnv(call_env)
        bound == BindArgs(1, func, SubSeq(args, 1, n), call_env, fe0, act, d)
        back(st) == [call_env EXCEPT !.vars = st.vars, !.funcs = st.funcs, !.obs = st.obs]
    IN  IF ~bound.ok THEN Err(bound.err, back(bound.call_env))
        ELSE IF Len(args) /= Len(func.params)
        THEN Err(ErrMsg("Invalid arguments length", ""), back(bound.call_env))
        ELSE IF d = 0 THEN Overflow(back(bound.call_env))
        ELSE LET r == EvalBody(1, func.body, from_num(0), bound.func_env,
                               act \cup {<<fname, func>>}, d - 1)
             IN  [r EXCEPT !.st = [back(bound.call_env) EXCEPT !.obs = r.st.obs]]

\* Function::eval of the function installed under fname
FunctionEval(fname, func, args, call_env, act, d) ==
    IF Len(args) /= Len(func.params)
    THEN Err(ErrMsg("Invalid arguments length", ""), call_env)
    ELSE LET fe0  == FuncEnv(call_env)
             bound == BindArgs(1, func, args,
                               [call_env EXCEPT !.shared = @ \/ fe0.shared],
                               fe0, act, d)
             back(st) == [call_env EXCEPT !.vars = st.vars, !.funcs = st.funcs,
                                          !.obs = st.obs]
         IN  IF ~bound.ok THEN Err(bound.err, back(bound.call_env))
             ELSE IF d = 0 THEN Overflow(back(bound.call_env))
             ELSE LET me == <<fname, func>>
                      fe == [bound.func_env EXCEPT
                                !.obs = [bound.call_env.obs EXCEPT !.seen = @ \cup
                                        (IF me \in act THEN {"reentered"} ELSE {})]]
                      r  == EvalBody(1, func.body, from_num(0), fe, act \cup {me}, d - 1)
                      out == [back(bound.call_env) EXCEPT !.obs = r.st.obs]
                  IN  [r EXCEPT !.st = out]

\* a conditional that evaluates the branch not taken as well, after the taken one
ConditionalEvalBoth(code, st, act, d) ==
    LET c == Eval(code.kids[1], Logged(st, "cond", 1, d), act, d)
    IN  IF ~c.ok THEN c
        ELSE LET taken == IF as_bool(c.val) THEN 2 ELSE 3
                 r == Eval(code.kids[taken], Logged(c.st, "cond", taken, d), act, d)
             IN  IF ~r.ok THEN r
                 ELSE LET o == Eval(code.kids[5 - taken],
                                    Logged(r.st, "cond", 5 - taken, d), act, d)
                      IN  [r EXCEPT !.st = o.st]

\* Conditional::eval
ConditionalEval(code, st, act, d) ==
    LET c == Eval(code.kids[1], Logged(st, "cond", 1, d), act, d)
    IN  IF ~c.ok THEN c
        ELSE IF as_bool(c.val)
        THEN Eval(code.kids[2], Logged(c.st, "cond", 2, d), act, d)
        ELSE Eval(code.kids[3], Logged(c.st, "cond", 3, d), act, d)

Eval(code, st, act, d) ==
    CASE code.kind = "Literal" -> Ok(code.value, st)
      [] code.kind = "GetVar" ->
            LET g == VarGet(st.vars, code.name)
            IN  IF g.ok THEN Ok(g.val, st) ELSE Err(g.err, st)
      [] code.kind = "DefVar" ->
            LET r == Eval(code.kids[1], st, act, d)
            IN  IF ~r.ok THEN r
                ELSE LET w == VarDef(r.st.vars, code.name, r.val)
                     IN  IF w.ok THEN Ok(w.val, Keyed([r.st EXCEPT !.vars = w.table], code.name))
                         ELSE Err(w.err, r.st)
      [] code.kind = "SetVar" ->
            LET r == Eval(code.kids[1], st, act, d)
            IN  IF ~r.ok THEN r
                ELSE LET w == VarSet(r.st.vars, code.name, r.val)
                     IN  IF w.ok THEN Ok(w.val, [r.st EXCEPT !.vars = w.table])
                         ELSE Err(w.err, r.st)
      [] code.kind = "BinaryOp" ->
            LET l == Eval(code.kids[1], st, act, d)
            IN  IF ~l.ok THEN l
                ELSE LET r == Eval(code.kids[2], l.st, act, d)
                     IN  IF ~r.ok THEN r
                         ELSE ApplyBinary(code.name, l.val, r.val, r.st)
      [] code.kind = "UnaryOp" ->
            LET r == Eval(code.kids[1], st, act, d)
            IN  IF ~r.ok THEN r ELSE ApplyUnary(code.name, r.val, r.st)
      [] code.kind = "Conditional" -> ConditionalEval(code, st, act, d)
      [] code.kind = "XPrint" -> Eval(code.kids[1], st, act, d)
      [] code.kind = "Defun" -> DefunEval(code, st)
      [] code.kind = "Funcall" ->
            IF code.name \notin DOMAIN st.funcs
            THEN Err(ErrMsg("Unknown function", code.name), st)
            ELSE FunctionEval(code.name, st.funcs[code.name], code.kids, st, act, d)
      [] OTHER -> Err(ErrMsg("Eval called on noop", ""), st)

(***************************************************************************)
(* The lexer (pcalc_lexer.rs).  An expression text is the sequence of its  *)
(* whitespace-separated words (split_whitespace); a token is a word with   *)
(* its type.                                                               *)
(***************************************************************************)
BinaryOpNames ==
    {"+", "-", "*", "/", "%", "^", "max", "min",
     "==", "!=", "<", "<=", ">", ">=", "and", "or"}

UnaryOpNames ==
    {"sqrt", "exp", "exp2", "ln", "log2", "log10", "sin", "cos", "tan", "sinh",
     "cosh", "tanh", "asin", "acos", "atan", "asinh", "acosh", "atanh", "sign",
     "abs", "recip", "fract", "trunc", "ceil", "floor", "round", "neg", "not",
     "asnum", "asbool"}

SpecialFtnNames == {"xprint"}

ConstNames == {"pi", "tau", "e", "phi"}

\* make_token_types: the type the table gives each reserved word
TokenTable ==
    [w \in BinaryOpNames |-> "BinaryOp"] @@ [w \in UnaryOpNames |-> "UnaryOp"]
    @@ [w \in SpecialFtnNames |-> "SpecialFtn"] @@ [w \in ConstNames |-> "Const"]
    @@ [w \in {"true", "false"} |-> "Literal"]
    @@ ("var" :> "Define") @@ ("=" :> "Assign") @@ ("def" :> "Defun")
    @@ ("call" :> "Funcall") @@ ("begin" :> "Begin") @@ ("end" :> "End")
    @@ ("cend" :> "CEnd") @@ ("if" :> "If") @@ ("?" :> "Then") @@ (":" :> "Else")
    @@ ("fi" :> "Fi")

\* the words that parse as f64, with their values
NumWords == {"0", "1", "2", "5"}

ParseF64(w) == CASE w = "0" -> 0 [] w = "1" -> 1 [] w = "2" -> 2 [] w = "5" -> 5

\* is_valid_identifier: the words that start with a letter and go on with
\* letters, digits and '_'; every other word of the model ("@", "1x") has a
\* character that is not allowed
IdentWords ==
    {"x", "y", "z", "t", "u", "a", "b", "c", "f", "g", "foo", "bar", "tar", "last"}

is_valid_identifier(w) == w \in IdentWords

Token(ttype, tname) == [ttype |-> ttype, tname |-> tname]

\* Lexer::token_type
token_type(w) ==
    IF w \in DOMAIN TokenTable THEN [ok |-> TRUE, ttype |-> TokenTable[w]]
    ELSE IF w \in NumWords THEN [ok |-> TRUE, ttype |-> "Literal"]
    ELSE IF is_valid_identifier(w) THEN [ok |-> TRUE, ttype |-> "Identifier"]
    ELSE [ok |-> FALSE, ttype |-> ""]

\* an error of the lexer or of the parser
PErr(m, a, text) == [msg |-> m, a |-> a, text |-> text]

NoPErr == PErr("", "", <<>>)

\* Lexer::tokenize from word i on: a word that has no type ends the loop with
\* the tokens of the words before it already pushed
RECURSIVE tokenize(_, _, _)
tokenize(toks, expr, i) ==
    IF i > Len(expr) THEN [ok |-> TRUE, err |-> NoPErr, tokens |-> toks]
    ELSE LET ty == token_type(expr[i])
         IN  IF ~ty.ok
             THEN [ok |-> FALSE, err |-> PErr("Invalid identifier", expr[i], <<>>),
                   tokens |-> toks]
             ELSE tokenize(Append(toks, Token(ty.ttype, expr[i])), expr, i + 1)

\* Lexer::is_reserved
is_reserved(name) == name \in DOMAIN TokenTable

\* a check_reserved that lets every name pass
check_reserved_none(tok, what) ==
    [ok |-> TRUE, err |-> NoPErr]

\* Lexer::check_reserved
check_reserved(tok, what) ==
    IF is_reserved(tok.tname)
    THEN [ok |-> FALSE, err |-> PErr(what, tok.tname, <<>>)]
    ELSE [ok |-> TRUE, err |-> NoPErr]

\* Lexer::starts_with, Lexer::ends_with
starts_with(toks, ttype) == toks /= <<>> /\ toks[1].ttype = ttype

ends_with(toks, ttype) == toks /= <<>> /\ toks[Len(toks)].ttype = ttype

(***************************************************************************)
(* The parser (pcalc_parser.rs).  make_code(toks) takes one expression     *)
(* from the front of the buffer: rest is the buffer it leaves.             *)
(***************************************************************************)
POk(code, rest) == [ok |-> TRUE, code |-> code, err |-> NoPErr, rest |-> rest]

PFail(m, a, rest) == [ok |-> FALSE, code |-> NoOp, err |-> PErr(m, a, <<>>), rest |-> rest]

\* make_literal
make_literal(tname, rest) ==
    IF tname = "true" THEN POk(Literal(from_bool(TRUE)), rest)
    ELSE IF tname = "false" THEN POk(Literal(from_bool(FALSE)), rest)
    ELSE POk(Literal(from_num(ParseF64(tname))), rest)

RECURSIVE make_code(_)
RECURSIVE make_params(_, _)
RECURSIVE make_body(_, _)
RECURSIVE make_args(_, _)

\* make_variable / make_set_variable: the node is DefVar or SetVar
make_variable(toks) ==
    IF toks = <<>> THEN PFail("Incomplete variable definition", "", toks)
    ELSE IF Head(toks).ttype /= "Identifier"
    THEN PFail("Invalid variable definition name", Head(toks).tname, Tail(toks))
    ELSE LET c == make_code(Tail(toks))
         IN  IF c.ok THEN POk(DefVar(Head(toks).tname, c.code), c.rest) ELSE c

make_set_variable(toks) ==
    IF toks = <<>> THEN PFail("Incomplete set variable", "", toks)
    ELSE IF Head(toks).ttype /= "Identifier"
    THEN PFail("Invalid set variable name", Head(toks).tname, Tail(toks))
    ELSE LET c == make_code(Tail(toks))
         IN  IF c.ok THEN POk(SetVar(Head(toks).tname, c.code), c.rest) ELSE c

\* the first loop of make_function: parameters up to the begin token
make_params(toks, params) ==
    IF toks = <<>> THEN [ok |-> FALSE, err |-> PErr("Invalid function definition/parameters", "", <<>>),
                         params |-> params, rest |-> toks]
    ELSE IF Head(toks).ttype = "Begin"
    THEN [ok |-> TRUE, err |-> NoPErr, params |-> params, rest |-> Tail(toks)]
    ELSE LET chk == check_reserved(Head(toks), "Invalid reserved function parameter definition")
         IN  IF ~chk.ok
             THEN [ok |-> FALSE, err |-> chk.err, params |-> params, rest |-> Tail(toks)]
             ELSE make_params(Tail(toks), Append(params, Head(toks).tname))

\* the second loop of make_function: body expressions up to the end token
make_body(toks, body) ==
    IF toks = <<>> THEN [ok |-> FALSE, err |-> PErr("Invalid function definition/body", "", <<>>),
                         body |-> body, rest |-> toks]
    ELSE IF Head(toks).ttype = "End"
    THEN [ok |-> TRUE, err |-> NoPErr, body |-> body, rest |-> Tail(toks)]
    ELSE LET c == make_code(toks)
         IN  IF ~c.ok THEN [ok |-> FALSE, err |-> c.err, body |-> body, rest |-> c.rest]
             ELSE make_body(c.rest, Append(body, c.code))

\* make_function
make_function(toks) ==
    IF toks = <<>> THEN PFail("Invalid function definition", "", toks)
    ELSE LET ftok == Head(toks)
             chk  == check_reserved(ftok, "Invalid reserved function name definition")
         IN  IF ~chk.ok THEN [PFail("", "", Tail(toks)) EXCEPT !.err = chk.err]
             ELSE LET ps == make_params(Tail(toks), <<>>)
                  IN  IF ~ps.ok THEN [PFail("", "", ps.rest) EXCEPT !.err = ps.err]
                      ELSE LET bd == make_body(ps.rest, <<>>)
                           IN  IF ~bd.ok THEN [PFail("", "", bd.rest) EXCEPT !.err = bd.err]
                               ELSE POk(Defun(ftok.tname, ps.params, bd.body), bd.rest)

\* the loop of make_funcall: arguments up to the cend token
make_args(toks, args) ==
    IF toks = <<>> THEN [ok |-> FALSE, err |-> PErr("Invalid function call/arguments", "", <<>>),
                         args |-> args, rest |-> toks]
    ELSE IF Head(toks).ttype = "CEnd"
    THEN [ok |-> TRUE, err |-> NoPErr, args |-> args, rest |-> Tail(toks)]
    ELSE LET c == make_code(toks)
         IN  IF ~c.ok THEN [ok |-> FALSE, err |-> c.err, args |-> args, rest |-> c.rest]
             ELSE make_args(c.rest, Append(args, c.code))

\* make_funcall
make_funcall(toks) ==
    IF toks = <<>> THEN PFail("Invalid function call", "", toks)
    ELSE LET as == make_args(Tail(toks), <<>>)
         IN  IF ~as.ok THEN [PFail("", "", as.rest) EXCEPT !.err = as.err]
             ELSE POk(Funcall(Head(toks).tname, as.args), as.rest)

\* make_conditional_part: one expression and the token that must follow it
make_conditional_part(toks, ends, or_fi) ==
    LET part == make_code(toks)
    IN  IF ~part.ok THEN [ok |-> FALSE, code |-> NoOp, err |-> part.err, rest |-> part.rest, stop |-> FALSE]
        ELSE IF part.rest = <<>>
        THEN [ok |-> FALSE, code |-> NoOp, err |-> PErr("Incomplete if expression - missing", ends, <<>>),
              rest |-> part.rest, stop |-> FALSE]
        ELSE IF Head(part.rest).ttype = ends
        THEN [ok |-> TRUE, code |-> part.code, err |-> NoPErr, rest |-> Tail(part.rest), stop |-> FALSE]
        ELSE IF or_fi /\ Head(part.rest).ttype = "Fi"
        THEN [ok |-> TRUE, code |-> part.code, err |-> NoPErr, rest |-> Tail(part.rest), stop |-> TRUE]
        ELSE [ok |-> FALSE, code |-> NoOp, err |-> PErr("Invalid if expression - expecting", ends, <<>>),
              rest |-> part.rest, stop |-> FALSE]

\* make_conditional
make_conditional(toks) ==
    LET c == make_conditional_part(toks, "Then", FALSE)
    IN  IF ~c.ok THEN [PFail("", "", c.rest) EXCEPT !.err = c.err]
        ELSE LET t == make_conditional_part(c.rest, "Else", TRUE)
             IN  IF ~t.ok THEN [PFail("", "", t.rest) EXCEPT !.err = t.err]
                 ELSE IF t.stop THEN POk(when(c.code, t.code), t.rest)
                 ELSE LET e == make_conditional_part(t.rest, "Fi", FALSE)
                      IN  IF ~e.ok THEN [PFail("", "", e.rest) EXCEPT !.err = e.err]
                          ELSE POk(Conditional(c.code, t.code, e.code), e.rest)

\* make_binary_op: the left operand is made first
make_binary_op(name, toks) ==
    LET l == make_code(toks)
    IN  IF ~l.ok THEN l
        ELSE LET r == make_code(l.rest)
             IN  IF ~r.ok THEN r ELSE POk(BinaryOp(name, l.code, r.code), r.rest)

\* make_unary_op, make_special_ftn
make_unary_op(name, toks) ==
    LET c == make_code(toks)
    IN  IF ~c.ok THEN c ELSE POk(UnaryOp(name, c.code), c.rest)

make_special_ftn(name, toks) ==
    LET c == make_code(toks)
    IN  IF ~c.ok THEN c ELSE POk(XPrint(c.code), c.rest)

\* make_const: the constants are not whole numbers; the literal holds the
\* constant by its name
make_const(tname, rest) == POk(Literal(from_num(tname)), rest)

\* make_code
make_code(toks) ==
    IF toks = <<>> THEN PFail("Expecting token", "", toks)
    ELSE LET first == Head(toks)
             rest  == Tail(toks)
         IN  CASE first.ttype = "Literal" -> make_literal(first.tname, rest)
               [] first.ttype = "Const" -> make_const(first.tname, rest)
               [] first.ttype = "Define" -> make_variable(rest)
               [] first.ttype = "Assign" -> make_set_variable(rest)
               [] first.ttype = "Defun" -> make_function(rest)
               [] first.ttype = "Funcall" -> make_funcall(rest)
               [] first.ttype = "BinaryOp" -> make_binary_op(first.tname, rest)
               [] first.ttype = "UnaryOp" -> make_unary_op(first.tname, rest)
               [] first.ttype = "SpecialFtn" -> make_special_ftn(first.tname, rest)
               [] first.ttype = "Identifier" -> POk(GetVar(first.tname), rest)
               [] first.ttype = "Begin" -> PFail("Invalid expression containing begin", "", rest)
               [] first.ttype \in {"End", "CEnd"} -> PFail("Invalid expression containing end", "", rest)
               [] first.ttype = "If" -> make_conditional(rest)
               [] first.ttype = "Then" -> PFail("Invalid expression containing then", "", rest)
               [] first.ttype = "Else" -> PFail("Invalid expression containing else", "", rest)
               [] first.ttype = "Fi" -> PFail("Invalid expression containing fi", "", rest)

\* the outcome of Parser::parse: ok with a tree, or an error; tokens is the
\* buffer the call leaves in the lexer
ParseOut(ok, code, err, toks) == [ok |-> ok, code |-> code, err |-> err, tokens |-> toks]

\* a parse that keeps the buffer when make_code fails
parse_keep_on_error(toks, expr) ==
    LET t == tokenize(toks, expr, 1)
    IN  IF ~t.ok THEN ParseOut(FALSE, NoOp, t.err, <<>>)
        ELSE IF starts_with(t.tokens, "Defun") /\ ~ends_with(t.tokens, "End")
        THEN ParseOut(TRUE, NoOp, NoPErr, t.tokens)
        ELSE LET m == make_code(t.tokens)
             IN  IF m.ok
                 THEN IF m.rest /= <<>>
                      THEN ParseOut(FALSE, NoOp, PErr("Invalid expression", "", expr), <<>>)
                      ELSE ParseOut(TRUE, m.code, NoPErr, m.rest)
                 ELSE ParseOut(FALSE, NoOp, m.err, m.rest)

\* a parse that returns the first expression and keeps what follows it
parse_keep_leftover(toks, expr) ==
    LET t == tokenize(toks, expr, 1)
    IN  IF ~t.ok THEN ParseOut(FALSE, NoOp, t.err, <<>>)
        ELSE IF starts_with(t.tokens, "Defun") /\ ~ends_with(t.tokens, "End")
        THEN ParseOut(TRUE, NoOp, NoPErr, t.tokens)
        ELSE LET m == make_code(t.tokens)
             IN  IF m.ok THEN ParseOut(TRUE, m.code, NoPErr, m.rest)
                 ELSE ParseOut(FALSE, NoOp, m.err, <<>>)

\* Parser::parse
parse(toks, expr) ==
    LET t == tokenize(toks, expr, 1)
    IN  IF ~t.ok THEN ParseOut(FALSE, NoOp, t.err, <<>>)
        ELSE IF starts_with(t.tokens, "Defun") /\ ~ends_with(t.tokens, "End")
        THEN ParseOut(TRUE, NoOp, NoPErr, t.tokens)
        ELSE LET m == make_code(t.tokens)
             IN  IF m.ok
                 THEN IF m.rest /= <<>>
                      THEN ParseOut(FALSE, NoOp, PErr("Invalid expression", "", expr), <<>>)
                      ELSE ParseOut(TRUE, m.code, NoPErr, m.rest)
                 ELSE ParseOut(FALSE, NoOp, m.err, <<>>)

(***************************************************************************)
(* The session: one Environment::new(), against which its holder evaluates *)
(* one Code tree after another, as the tests of pcalc_code.rs do.  res, op, pvars and pfuncs record the last     *)
(* evaluation: its result, its tree and the tables it started from.        *)
(***************************************************************************)
\* nothing observed yet: `seen` collects what an evaluation was seen to do,
\* `log` the parts it entered, in order, `keys` the names it bound in a
\* variable table or in the function table
NoObs == [seen |-> {}, log |-> <<>>, keys |-> {}]

NoRes ==
    [ok |-> TRUE, val |-> from_num(0), err |-> [NoErr EXCEPT !.b = ""],
     obs |-> {}, log |-> <<>>]

\* no parse call made yet; afterErr tells that the call before failed
NoParse ==
    [called |-> FALSE, afterErr |-> FALSE, text |-> <<>>, before |-> <<>>,
     ok |-> TRUE, code |-> NoOp, err |-> NoPErr, outs |-> <<>>, keys |-> {}]

Init ==
    /\ vars = EmptyTable
    /\ funcs = EmptyTable
    /\ res = NoRes
    /\ op = NoOp
    /\ pvars = EmptyTable
    /\ pfuncs = EmptyTable
    /\ written = EmptyTable
    /\ pc = "read"
    /\ tokens = <<>>
    /\ pin = NoParse

\* the holder of the Environment goes on to its next tree, and the record of
\* the last evaluation is dropped; a panic has ended the process
Proceed ==
    /\ pc = "done"
    /\ "panic" \notin res.obs
    /\ pc' = "read"
    /\ res' = NoRes
    /\ op' = NoOp
    /\ pvars' = EmptyTable
    /\ pfuncs' = EmptyTable
    /\ pin' = [NoParse EXCEPT !.afterErr = pin.called /\ ~pin.ok]
    /\ UNCHANGED <<vars, funcs, written, tokens>>

\* code.eval(&mut env) by the holder of the top-level Environment
Step(code) ==
    LET r == Eval(code, [vars |-> vars, funcs |-> funcs, shared |-> FALSE, obs |-> NoObs],
                  {}, MaxDepth)
    IN  /\ pc = "read"
        /\ pc' = "done"
        /\ vars' = r.st.vars
        /\ funcs' = r.st.funcs
        /\ \E nm \in (IF r.err.b = {} THEN {""} ELSE r.err.b) :
              res' = [ok |-> r.ok, val |-> r.val,
                      err |-> [r.err EXCEPT !.b = nm],
                      obs |-> r.st.obs.seen, log |-> r.st.obs.log]
        /\ op' = code
        /\ pvars' = vars
        /\ pfuncs' = funcs
        /\ written' = IF code.kind \in {"DefVar", "SetVar"} /\ r.ok
                      THEN Put(written, code.name, r.val)
                      ELSE written
        /\ UNCHANGED <<tokens, pin>>

(***************************************************************************)
(* The checker specification: definitions whose bodies are calls, plain or *)
(* nested in an operator, over a few names, and calls of those functions.  *)
(***************************************************************************)
AllNames == <<"foo", "bar", "tar", "zar", "car">>

FNames == {AllNames[i] : i \in 1..NumFuncs}

One == Literal(from_num(1))

RecExprs ==
    {One} \cup {Funcall(g, <<>>) : g \in FNames}
          \cup {BinaryOp("+", One, Funcall(g, <<>>)) : g \in FNames}

RecBodies == UNION {[1..n -> RecExprs] : n \in 0..RecMaxBody}

RecDefun ==
    \E name \in FNames, body \in RecBodies :
        /\ Len(body) <= RecMaxBody
        /\ Step(Defun(name, <<>>, body))

RecFuncall ==
    \E name \in FNames :
        /\ name /= ""
        /\ Step(Funcall(name, <<>>))

NextRec == RecDefun \/ RecFuncall \/ Proceed

SpecRec == Init /\ [][NextRec]_state

(***************************************************************************)
(* The variable specification: var, = and reads of a few names at the top  *)
(* level.                                                                  *)
(***************************************************************************)
Two == Literal(from_num(2))

Yes == Literal(from_bool(TRUE))

VNames == {"x", "y", "z"}

VLits == {One, Two, Yes}

VarDefine ==
    \E n \in VNames, c \in VLits :
        /\ c.kind = "Literal"
        /\ Step(DefVar(n, c))

VarAssign ==
    \E n \in VNames, c \in VLits :
        /\ c.kind = "Literal"
        /\ Step(SetVar(n, c))

VarRead ==
    \E n \in VNames :
        /\ n /= ""
        /\ Step(GetVar(n))

NextVar == VarDefine \/ VarAssign \/ VarRead \/ Proceed

SpecVar == Init /\ [][NextVar]_state

(***************************************************************************)
(* The session specification: a variable z of the holder, a function bar   *)
(* that adds one or that calls foo, a function foo over two parameter      *)
(* lists and a few bodies (reads of a parameter and of the caller's z, a   *)
(* local z, an assignment to z, calls of bar and of foo, a definition of   *)
(* tar), and calls of both with argument lists that may read z or define   *)
(* the caller's x.                                                         *)
(***************************************************************************)
SeqsUpTo(S, n) == UNION {[1..k -> S] : k \in 0..n}

IncBar == Defun("bar", <<"x">>, <<BinaryOp("+", GetVar("x"), One)>>)

BarFoo == Defun("bar", <<"x">>, <<Funcall("foo", <<>>)>>)

DefTar == Defun("tar", <<>>, <<Two>>)

FooParams == {<<"x">>, <<"x", "y">>}

FooExprs ==
    { GetVar("x"), GetVar("z"), DefVar("z", Two), SetVar("z", Two),
      Funcall("bar", <<One>>), Funcall("foo", <<>>), DefTar }

FooDefs == {Defun("foo", p, b) : p \in FooParams, b \in SeqsUpTo(FooExprs, MaxBody)}

ArgExprs == {One, GetVar("z"), DefVar("x", One)}

Calls == {Funcall(f, a) : f \in {"foo", "bar"}, a \in SeqsUpTo(ArgExprs, MaxArgs)}

EvalDefVar ==
    \E c \in {One, Two} :
        /\ c.kind = "Literal"
        /\ Step(DefVar("z", c))

EvalSetVar ==
    \E c \in {One, Two} :
        /\ c.kind = "Literal"
        /\ Step(SetVar("z", c))

EvalGetVar ==
    /\ pc = "read"
    /\ Step(GetVar("z"))

EvalDefun ==
    \E d \in FooDefs \cup {IncBar, BarFoo} :
        /\ d.kind = "Defun"
        /\ Step(d)

EvalFuncall ==
    \E c \in Calls :
        /\ is_funcall(c)
        /\ Step(c)

Next == EvalDefVar \/ EvalSetVar \/ EvalGetVar \/ EvalDefun \/ EvalFuncall \/ Proceed

Spec == Init /\ [][Next]_state

(***************************************************************************)
(* Bodies of several expressions (test_function_multi_expr): a function    *)
(* foo of no parameter whose body defines, assigns and reads its own       *)
(* variable t, reads a variable u nobody defines, or is empty.             *)
(***************************************************************************)
BodyExprs == {DefVar("t", One), SetVar("t", Two), GetVar("t"), GetVar("u"), Two}

BodyDefs == {Defun("foo", <<>>, b) : b \in SeqsUpTo(BodyExprs, BodyLen)}

BodyDefun ==
    \E d \in BodyDefs :
        /\ d.kind = "Defun"
        /\ Step(d)

BodyFuncall ==
    /\ pc = "read"
    /\ Step(Funcall("foo", <<>>))

NextBody == BodyDefun \/ BodyFuncall \/ Proceed

SpecBody == Init /\ [][NextBody]_state

(***************************************************************************)
(* Conditionals (test_conditional, test_conditional_when): conditions that *)
(* are boolean or numeric literals, define a variable or fail; branches    *)
(* that define a variable or a function or are a literal.                  *)
(***************************************************************************)
No == Literal(from_bool(FALSE))

Zero == Literal(from_num(0))

DefG == Defun("g", <<>>, <<One>>)

CondExprs == {Yes, No, One, Zero, DefVar("c", Yes), GetVar("u")}

BranchExprs == {DefVar("a", One), DefVar("b", Two), DefG, Two}

EvalConditional ==
    \E c \in CondExprs, t \in BranchExprs, e \in BranchExprs :
        /\ c.kind \in {"Literal", "DefVar", "GetVar"}
        /\ Step(Conditional(c, t, e))

EvalWhen ==
    \E c \in CondExprs, t \in BranchExprs :
        /\ c.kind \in {"Literal", "DefVar", "GetVar"}
        /\ Step(when(c, t))

NextCond == EvalConditional \/ EvalWhen \/ Proceed

SpecCond == Init /\ [][NextCond]_state

(***************************************************************************)
(* One Parser fed one text after another (the tests of pcalc_parser.rs):   *)
(* texts of the words that make a definition, and a word the lexer rejects. *)
(***************************************************************************)
\* self.parser.parse(text) on the one Parser
ParserStep(text) ==
    LET r == parse(tokens, text)
    IN  /\ pc = "read"
        /\ pc' = "done"
        /\ tokens' = r.tokens
        /\ pin' = [called |-> TRUE, afterErr |-> pin.afterErr, text |-> text,
                   before |-> tokens, ok |-> r.ok, code |-> r.code, err |-> r.err,
                   outs |-> <<>>, keys |-> {}]
        /\ UNCHANGED <<vars, funcs, res, op, pvars, pfuncs, written>>

ParseWords == {"def", "f", "begin", "end", "@"}

ParseCall ==
    \E text \in SeqsUpTo(ParseWords, TextLen) :
        /\ Len(tokens) + Len(text) <= MaxTokens
        /\ ParserStep(text)

NextParse == ParseCall \/ Proceed

SpecParse == Init /\ [][NextParse]_state

(***************************************************************************)
(* A definition fed to one Parser in pieces ("def add x y\nbegin\n+ x y\n  *)
(* end" of test_parser_defun, one line per call): every text of up to      *)
(* SplitLen words that one parse call accepts as a definition, cut at any  *)
(* set of word boundaries.                                                 *)
(***************************************************************************)
SplitWords == {"def", "f", "begin", "end"}

\* the texts `def ... end` that a fresh parser accepts as a definition
SplitDefs ==
    {D \in {<<"def">> \o m \o <<"end">> : m \in SeqsUpTo(SplitWords, SplitLen - 2)} :
        LET r == parse(<<>>, D) IN r.ok /\ r.code.kind = "Defun"}

\* successive parse calls on one parser, one per piece of D; a piece ends at
\* each word whose index is in cuts and at the last word
RECURSIVE FeedFrom(_, _, _, _, _, _)
FeedFrom(toks, D, cuts, start, i, outs) ==
    IF i > Len(D) THEN [tokens |-> toks, outs |-> outs]
    ELSE IF i \in cuts \/ i = Len(D)
    THEN LET r == parse(toks, SubSeq(D, start, i))
         IN  FeedFrom(r.tokens, D, cuts, i + 1, i + 1,
                      Append(outs, [text |-> SubSeq(D, start, i), ok |-> r.ok,
                                    code |-> r.code, err |-> r.err]))
    ELSE FeedFrom(toks, D, cuts, start, i + 1, outs)

SplitFeed ==
    \E D \in SplitDefs :
        \E cuts \in SUBSET (1..(Len(D) - 1)) :
            LET r == FeedFrom(tokens, D, cuts, 1, 1, <<>>)
                n == Len(r.outs)
            IN  /\ pc = "read"
                /\ tokens = <<>>
                /\ pc' = "done"
                /\ tokens' = r.tokens
                /\ pin' = [called |-> TRUE, afterErr |-> pin.afterErr, text |-> D,
                           before |-> tokens, ok |-> r.outs[n].ok,
                           code |-> r.outs[n].code, err |-> r.outs[n].err,
                           outs |-> r.outs, keys |-> {}]
                /\ UNCHANGED <<vars, funcs, res, op, pvars, pfuncs, written>>

NextSplit == SplitFeed \/ Proceed

SpecSplit == Init /\ [][NextSplit]_state

(***************************************************************************)
(* The driver (pcalc_repl.rs).  A REPL is the record rs of its parser's    *)
(* buffer and its environment's tables; out is the list of the expressions *)
(* it parsed, each with where it stood and how it ended.  An input line is *)
(* the sequence of its `;`-separated, trimmed expressions, each the        *)
(* sequence of its words.                                                  *)
(***************************************************************************)
\* REPL::new: reset_env defines last as 0
ReplInit ==
    /\ vars = Put(EmptyTable, "last", from_num(0))
    /\ funcs = EmptyTable
    /\ res = NoRes
    /\ op = NoOp
    /\ pvars = EmptyTable
    /\ pfuncs = EmptyTable
    /\ written = EmptyTable
    /\ pc = "read"
    /\ tokens = <<>>
    /\ pin = NoParse

Outcome(li, ei, ok, stage, msg, a) ==
    [line |-> li, expr |-> ei, ok |-> ok, stage |-> stage, msg |-> msg, a |-> a]

\* the one element of a set of one element
The(S) == CHOOSE x \in S : TRUE

\* REPL::eval_and_print of expression ei of line li: p is the result of
\* self.parser.parse(expr), r that of code.eval(&mut self.env)
eval_and_print(rs, expr, li, ei) ==
    The({ IF ~p.ok
          THEN [ok |-> FALSE,
                rs |-> [rs EXCEPT !.tokens = p.tokens,
                                  !.out = Append(@, Outcome(li, ei, FALSE, "parse", p.err.msg, p.err.a))]]
          ELSE The({ LET after == [rs EXCEPT !.tokens = p.tokens, !.funcs = r.st.funcs,
                                             !.keys = @ \cup r.st.obs.keys]
                         set == VarSet(r.st.vars, "last", r.val)
                     IN  IF r.ok /\ set.ok
                         THEN [ok |-> TRUE,
                               rs |-> [after EXCEPT
                                         !.vars = set.table,
                                         !.out = Append(@, Outcome(li, ei, TRUE, "eval", "", ""))]]
                         ELSE IF r.ok
                         THEN [ok |-> FALSE,
                               rs |-> [after EXCEPT
                                         !.vars = set.table,
                                         !.out = Append(@, Outcome(li, ei, FALSE, "panic", set.err.msg, set.err.a))]]
                         ELSE [ok |-> FALSE,
                               rs |-> [after EXCEPT
                                         !.vars = r.st.vars,
                                         !.out = Append(@, Outcome(li, ei, FALSE, "eval", r.err.msg, r.err.a))]]
                     : r \in {Eval(p.code, [vars |-> rs.vars, funcs |-> rs.funcs,
                                            shared |-> FALSE, obs |-> NoObs], {}, MaxDepth)} })
          : p \in {parse(rs.tokens, expr)} })

\* REPL::eval_and_print_line from expression ei on
RECURSIVE eval_and_print_line(_, _, _, _)
eval_and_print_line(rs, line, li, ei) ==
    IF ei > Len(line) THEN [ok |-> TRUE, rs |-> rs]
    ELSE IF line[ei] = <<>> THEN eval_and_print_line(rs, line, li, ei + 1)
    ELSE The({ IF ~r.ok THEN r ELSE eval_and_print_line(r.rs, line, li, ei + 1)
               : r \in {eval_and_print(rs, line[ei], li, ei)} })

\* REPL::eval_and_print_multi_line from line li on
RECURSIVE eval_and_print_multi_line(_, _, _)
eval_and_print_multi_line(rs, lines, li) ==
    IF li > Len(lines) THEN [ok |-> TRUE, rs |-> rs]
    ELSE IF lines[li] = <<>> THEN eval_and_print_multi_line(rs, lines, li + 1)
    ELSE The({ IF ~r.ok THEN r ELSE eval_and_print_multi_line(r.rs, lines, li + 1)
               : r \in {eval_and_print_line(rs, lines[li], li, 1)} })

\* the REPL as the driver holds it before a call
ReplNow == [tokens |-> tokens, vars |-> vars, funcs |-> funcs, keys |-> {}, out |-> <<>>]

\* the driver has made a call on the lines of `text`, which ended as r
ReplDone(text, r) ==
    /\ pc = "read"
    /\ pc' = "done"
    /\ vars' = r.rs.vars
    /\ funcs' = r.rs.funcs
    /\ tokens' = r.rs.tokens
    /\ pin' = [called |-> TRUE, afterErr |-> pin.afterErr, text |-> text,
               before |-> tokens, ok |-> r.ok, code |-> NoOp, err |-> NoPErr,
               outs |-> r.rs.out, keys |-> r.rs.keys]
    /\ pvars' = vars
    /\ pfuncs' = funcs
    /\ UNCHANGED <<res, op, written>>

(***************************************************************************)
(* Lines and files of expressions that succeed (1, var x 1 once), fail in  *)
(* the evaluator (u, var x 1 again) or in the parser (@), or are empty.    *)
(***************************************************************************)
ReplExprs == {<<"1">>, <<"u">>, <<"var", "x", "1">>, <<"@">>, <<>>}

ReplLines == SeqsUpTo(ReplExprs, LineLen) \ {<<>>}

\* REPL::run: one turn of the loop on a line that is no command
RunLine ==
    \E line \in ReplLines :
        /\ pc = "read" /\ line /= <<>>
        /\ \E r \in {eval_and_print_line(ReplNow, line, 1, 1)} : ReplDone(<<line>>, r)

\* REPL::load_file on a file that can be read
LoadFile ==
    \E lines \in SeqsUpTo(ReplLines, FileLen) :
        /\ pc = "read" /\ Len(lines) <= FileLen
        /\ \E r \in {eval_and_print_multi_line(ReplNow, lines, 1)} : ReplDone(lines, r)

NextRepl == RunLine \/ LoadFile \/ Proceed

SpecRepl == ReplInit /\ [][NextRepl]_state

(***************************************************************************)
(* Names (test_parser_defvar, test_parser_defun): definitions, assignments *)
(* and calls typed at the driver, whose name is an identifier, a constant, *)
(* an operator, a keyword, a boolean or a number.                          *)
(***************************************************************************)
Names == {"x", "f", "pi", "max", "true", "def", "5"}

\* one line of one expression
TypeLine(t) == pc = "read" /\ \E r \in {eval_and_print_line(ReplNow, <<t>>, 1, 1)} : ReplDone(<<<<t>>>>, r)

DefineName ==
    \E n \in Names :
        /\ n \in Names
        /\ TypeLine(<<"var", n, "1">>)

AssignName ==
    \E n \in Names :
        /\ n \in Names
        /\ TypeLine(<<"=", n, "2">>)

DefunName ==
    \E n \in Names :
        /\ n \in Names
        /\ TypeLine(<<"def", n, "begin", "1", "end">>)

DefunParam ==
    \E n \in Names :
        /\ n \in Names
        /\ TypeLine(<<"def", "f", n, "begin", n, "end">>)

CallName ==
    \E n \in Names, a \in {<<>>, <<"1">>} :
        /\ n \in Names
        /\ TypeLine(<<"call", n>> \o a \o <<"cend">>)

NextNames == DefineName \/ AssignName \/ DefunName \/ DefunParam \/ CallName \/ Proceed

SpecNames == ReplInit /\ [][NextNames]_state

(***************************************************************************)
(* Operators applied to literal operands (the tests of pcalc_binary_ops.rs *)
(* and pcalc_unary_ops.rs): numbers 0, 1 and 5 and both booleans.          *)
(***************************************************************************)
Operands == {from_num(0), from_num(1), from_num(5), from_bool(TRUE), from_bool(FALSE)}

ArithOps == {"+", "-", "*", "/", "%", "^", "max", "min"}

CompareOps == {"==", "!=", "<", "<=", ">", ">="}

LogicalOps == {"and", "or"}

\* the operand pairs whose f64 result is a whole number that the integer
\* operators give too
Representable(o, a, b) ==
    BothNum(a, b) =>
        /\ o \in {"/", "%"} => (b.v > 0 /\ a.v >= 0 /\ a.v % b.v = 0)
        /\ o = "^" => (b.v >= 0 /\ ~(a.v = 0 /\ b.v = 0))

EvalArith ==
    \E o \in ArithOps, a \in Operands, b \in Operands :
        /\ Representable(o, a, b)
        /\ Step(BinaryOp(o, Literal(a), Literal(b)))

EvalCompare ==
    \E o \in CompareOps, a \in Operands, b \in Operands :
        /\ o \notin ArithOps
        /\ Step(BinaryOp(o, Literal(a), Literal(b)))

EvalLogical ==
    \E o \in LogicalOps, a \in Operands, b \in Operands :
        /\ o \notin ArithOps
        /\ Step(BinaryOp(o, Literal(a), Literal(b)))

EvalNot ==
    \E a \in Operands :
        /\ a \in Operands
        /\ Step(UnaryOp("not", Literal(a)))

NextOps == EvalArith \/ EvalCompare \/ EvalLogical \/ EvalNot \/ Proceed

SpecOps == Init /\ [][NextOps]_state

(***************************************************************************)
(* Files of a definition in pieces (test_pcalc_file_defun): every line is  *)
(* one piece of `def f begin 1 end`, and a call of f is typed afterwards.  *)
(***************************************************************************)
DefLen == 3

DefParts == {<<"def", "f">>, <<"def", "f", "begin">>, <<"begin">>, <<"1">>, <<"1", "end">>, <<"end">>}

\* REPL::load_file on a file of up to DefLen lines of one piece each
LoadDefFile ==
    \E lines \in SeqsUpTo({<<e>> : e \in DefParts}, DefLen) :
        /\ pc = "read" /\ Len(tokens) < MaxTokens
        /\ \E r \in {eval_and_print_multi_line(ReplNow, lines, 1)} : ReplDone(lines, r)

\* REPL::eval_expr on `call f cend`
CallDefined ==
    /\ pc = "read" /\ Len(tokens) < MaxTokens
    /\ \E r \in {eval_and_print_line(ReplNow, <<<<"call", "f", "cend">>>>, 1, 1)} :
           ReplDone(<<<<<<"call", "f", "cend">>>>>>, r)

NextFile == LoadDefFile \/ CallDefined \/ Proceed

SpecFile == ReplInit /\ [][NextFile]_state

(***************************************************************************)
(* The variable last (test_pcalc_initial_last, test_pcalc_basic): lines of *)
(* one expression that read, assign or define last, succeed or fail, and   *)
(* the command :reset.                                                     *)
(***************************************************************************)
LastExprs ==
    {<<"1">>, <<"true">>, <<"=", "last", "5">>, <<"var", "last", "1">>, <<"var", "x", "2">>,
     <<"==", "last", "1">>, <<"u">>, <<"@">>, <<"+", "=", "last", "2", "u">>}

\* REPL::run: one turn of the loop on a line of one expression
TypeExpr ==
    \E t \in LastExprs :
        /\ t \in LastExprs
        /\ TypeLine(t)

\* REPL::run: one turn of the loop on the command :reset (reset_env)
ResetEnv ==
    /\ pc = "read"
    /\ pc' = "done"
    /\ vars' = VarDef(EmptyTable, "last", from_num(0)).table
    /\ funcs' = EmptyTable
    /\ pin' = [NoParse EXCEPT !.called = TRUE, !.afterErr = pin.afterErr,
                               !.text = <<<<<<":reset">>>>>>, !.before = tokens]
    /\ pvars' = vars
    /\ pfuncs' = funcs
    /\ UNCHANGED <<res, op, written, tokens>>

NextLast == TypeExpr \/ ResetEnv \/ Proceed

SpecLast == ReplInit /\ [][NextLast]_state

(***************************************************************************)
(* Operands and arguments with effects (test_code_binary_op and            *)
(* test_function_eval with sub-expressions that define a, read it, or fail *)
(* on an unknown u or w): a sum of two of them, and a call of the function *)
(* pair of two parameters with two of them as arguments.                   *)
(***************************************************************************)
OrdExprs == {One, Yes, DefVar("a", One), DefVar("a", Two), GetVar("a"), GetVar("u"), GetVar("w")}

DefPair == Defun("pair", <<"p", "q">>, <<GetVar("q")>>)

EvalSum ==
    \E l \in OrdExprs, r \in OrdExprs :
        /\ l \in OrdExprs
        /\ Step(BinaryOp("+", l, r))

EvalDefPair ==
    /\ "pair" \notin DOMAIN funcs
    /\ Step(DefPair)

EvalCallPair ==
    \E l \in OrdExprs, r \in OrdExprs :
        /\ "pair" \in DOMAIN funcs
        /\ Step(Funcall("pair", <<l, r>>))

NextOrder == EvalSum \/ EvalDefPair \/ EvalCallPair \/ Proceed

SpecOrder == Init /\ [][NextOrder]_state

(***************************************************************************)
(* The checks as functions (test_check_cross_recursive3 and its            *)
(* neighbours): tables put together with Environment::def_func, in which   *)
(* bar and tar call up to CrossCalls of the five names and zar is absent   *)
(* or calls car or foo, and the checks of a definition of foo.             *)
(***************************************************************************)
CrossCalls == 2

CrossFuel == 6

CallSets == {S \in SUBSET Range(AllNames) : Cardinality(S) <= CrossCalls}

\* make_func, make_func2: a function of no parameters whose body calls the
\* names of S
make_func(S) ==
    LET called(n) == n \in S
        names == SelectSeq(AllNames, called)
    IN  Function(<<>>, [i \in 1..Len(names) |-> Funcall(names[i], <<>>)])

CrossTables ==
    {[n \in D |-> make_func(c[n])] :
        c \in {x \in [{"bar", "tar", "zar"} -> CallSets] : x["zar"] \in {{"car"}, {"foo"}}},
        D \in SUBSET {"bar", "tar", "zar"}}

CrossInit ==
    /\ funcs \in CrossTables
    /\ vars = EmptyTable
    /\ res = NoRes
    /\ op = NoOp
    /\ pvars = EmptyTable
    /\ pfuncs = EmptyTable
    /\ written = EmptyTable
    /\ pc = "read"
    /\ tokens = <<>>
    /\ pin = NoParse

\* check_cross_recursive("foo", func, env) in one of the orders of its worklist
CheckCross ==
    \E S \in CallSets :
        /\ pc = "read" /\ "foo" \notin DOMAIN funcs
        /\ \E run \in CrossCheckRuns("foo", make_func(S), funcs, CrossFuel) :
              res' = [ok |-> ~run.rejected, val |-> from_num(0),
                      err |-> IF run.rejected
                              THEN [ErrMsg("Cross recursive functions", "foo") EXCEPT !.b = run.nm]
                              ELSE [NoErr EXCEPT !.b = ""],
                      obs |-> {"check"} \cup (IF run.cut THEN {"cut"} ELSE {}),
                      log |-> run.trace]
        /\ op' = Defun("foo", <<>>, make_func(S).body)
        /\ pc' = "done"
        /\ pvars' = vars
        /\ pfuncs' = funcs
        /\ UNCHANGED <<vars, funcs, written, tokens, pin>>

\* Defun::eval of a definition of foo
DefineFoo ==
    \E S \in CallSets :
        /\ "foo" \notin DOMAIN funcs
        /\ Step(Defun("foo", <<>>, make_func(S).body))

NextCross == CheckCross \/ DefineFoo \/ Proceed

SpecCross == CrossInit /\ [][NextCross]_state

(***************************************************************************)
(* The lexer on its own (the tests of pcalc_lexer.rs): texts of numbers,   *)
(* identifiers, keywords and words that are none of these, tokenized into  *)
(* one Lexer, which is cleared now and then.                               *)
(***************************************************************************)
LexWords == {"1", "x", "def", "@"}

\* Lexer::tokenize
LexCall ==
    \E text \in SeqsUpTo(LexWords, TextLen) :
        /\ pc = "read" /\ Len(tokens) + Len(text) <= MaxTokens
        /\ \E r \in {tokenize(tokens, text, 1)} :
              /\ tokens' = r.tokens
              /\ pin' = [NoParse EXCEPT !.called = TRUE, !.afterErr = pin.afterErr,
                                         !.text = text, !.before = tokens,
                                         !.ok = r.ok, !.err = r.err]
        /\ pc' = "done"
        /\ UNCHANGED <<vars, funcs, res, op, pvars, pfuncs, written>>

\* Lexer::clear
LexClear ==
    /\ pc = "read" /\ tokens /= <<>>
    /\ tokens' = <<>>
    /\ pin' = [NoParse EXCEPT !.called = TRUE, !.afterErr = pin.afterErr, !.before = tokens]
    /\ pc' = "done"
    /\ UNCHANGED <<vars, funcs, res, op, pvars, pfuncs, written>>

NextLex == LexCall \/ LexClear \/ Proceed

SpecLex == Init /\ [][NextLex]_state

(***************************************************************************)
(* The environment and its size (test_environment_variables,               *)
(* test_environment_functions): definitions and assignments of x, y and z, *)
(* definitions of f and g, and resets.                                     *)
(***************************************************************************)
EnvFuncs == {Defun(f, <<>>, <<b>>) : f \in {"f", "g"}, b \in {One, Two}}

EnvDefVar ==
    \E n \in VNames, c \in VLits :
        /\ n \in VNames
        /\ Step(DefVar(n, c))

EnvSetVar ==
    \E n \in VNames, c \in VLits :
        /\ n \in VNames
        /\ Step(SetVar(n, c))

EnvDefFunc ==
    \E c \in EnvFuncs :
        /\ c \in EnvFuncs
        /\ Step(c)

\* Environment::reset by the holder of the top-level Environment
EnvReset ==
    /\ pc = "read"
    /\ \E st \in {Environment_reset([vars |-> vars, funcs |-> funcs, shared |-> FALSE,
                                       obs |-> NoObs])} :
          vars' = st.vars /\ funcs' = st.funcs
    /\ res' = [NoRes EXCEPT !.obs = {"reset"}]
    /\ pc' = "done"
    /\ pvars' = vars
    /\ pfuncs' = funcs
    /\ written' = EmptyTable
    /\ UNCHANGED <<op, tokens, pin>>

NextEnv == EnvDefVar \/ EnvSetVar \/ EnvDefFunc \/ EnvReset \/ Proceed

SpecEnv == Init /\ [][NextEnv]_state

(***************************************************************************)
(* The call graph the claims speak of: a function calls every name of a    *)
(* call node that occurs anywhere in its body.                             *)
(***************************************************************************)
Done == pc = "done"

RECURSIVE AllCallNames(_)
AllCallNames(c) ==
    (IF is_funcall(c) THEN {c.name} ELSE {})
        \cup UNION {AllCallNames(c.kids[i]) : i \in 1..Len(c.kids)}

CallsAnywhere(func) == UNION {AllCallNames(func.body[i]) : i \in 1..Len(func.body)}

\* the installed functions reached from the names in `from` through calls
\* between installed functions of fs
RECURSIVE Reached(_, _, _)
Reached(fs, from, seen) ==
    LET new == (from \cap DOMAIN fs) \ seen
    IN  IF new = {} THEN seen
        ELSE Reached(fs, UNION {CallsAnywhere(fs[f]) : f \in new}, seen \cup new)

SelfReachable(fs, f) == f \in Reached(fs, CallsAnywhere(fs[f]), {})

\* the function a Defun node holds
FuncOf(code) == Function(code.params, code.kids)

\* C1: after any sequence of function definitions the function table holds no
\* function that is reachable from itself through calls between installed
\* functions, a call being a call node anywhere in a body.
C1_NoRecursiveFunction == \A f \in DOMAIN funcs : ~SelfReachable(funcs, f)

\* C2: evaluating a call of an installed function terminates (the nesting of
\* running bodies stays within the depth followed), no function is entered
\* while one of its own bodies is running, and the function that runs is not a
\* recursive definition.
C2_CallsTerminate ==
    (Done /\ op.kind = "Funcall")
        => /\ "overflow" \notin res.obs
           /\ "reentered" \notin res.obs
           /\ op.name \in DOMAIN pfuncs => ~SelfReachable(pfuncs, op.name)

\* C3: a definition of f whose body calls f fails with "Self recursive
\* function 'f'" and leaves the function table as it was.
C3_SelfRecursiveRejected ==
    (Done /\ op.kind = "Defun" /\ op.name \in CallsAnywhere(FuncOf(op)))
        => /\ ~res.ok
           /\ res.err.msg = "Self recursive function"
           /\ res.err.a = op.name
           /\ funcs = pfuncs

\* installed functions f1 .. fn, none of them `name`, with the new body calling
\* f1, each calling the next and fn calling `name`
ChainBack(fs, name, func) ==
    LET others == [g \in DOMAIN fs \ {name} |-> fs[g]]
    IN  \E g \in Reached(others, CallsAnywhere(func), {}) : name \in CallsAnywhere(fs[g])

\* C4: a definition of `name` whose body calls f1, where installed f1 .. fn
\* call one another in a chain that ends in a call of `name`, is rejected as
\* cross recursive and `name` stays as it was (absent, if it was absent).
C4_ChainRejected ==
    (/\ Done
     /\ op.kind = "Defun"
     /\ op.name \notin CallsAnywhere(FuncOf(op))
     /\ ChainBack(pfuncs, op.name, FuncOf(op)))
        => /\ ~res.ok
           /\ res.err.msg = "Cross recursive functions"
           /\ res.err.a = op.name
           /\ funcs = pfuncs

\* C5: a rejected definition leaves the whole function table as it was; an
\* accepted one returns true, puts the function under its name, keeps every
\* other entry and, when the name was installed, keeps the number of entries.
C5_DefunFrame ==
    (Done /\ op.kind = "Defun")
        => /\ res.ok <=> /\ ~check_self_recursive(op.name, FuncOf(op))
                         /\ ~CrossRejected(op.name, FuncOf(op), pfuncs)
           /\ ~res.ok => funcs = pfuncs
           /\ res.ok =>
                /\ res.val = from_bool(TRUE)
                /\ DOMAIN funcs = DOMAIN pfuncs \cup {op.name}
                /\ funcs[op.name] = FuncOf(op)
                /\ \A g \in DOMAIN pfuncs \ {op.name} : funcs[g] = pfuncs[g]
                /\ op.name \in DOMAIN pfuncs
                      => Cardinality(DOMAIN funcs) = Cardinality(DOMAIN pfuncs)

\* a definition replaced another one of its name next to a second function
C5_Witness ==
    /\ Done /\ op.kind = "Defun" /\ res.ok
    /\ op.name \in DOMAIN pfuncs
    /\ pfuncs[op.name] /= funcs[op.name]
    /\ Cardinality(DOMAIN funcs) >= 2

\* C6: var of an unbound name binds it and returns the value; var of a bound
\* name fails and keeps the binding; = of a bound name replaces the value and
\* returns it; = of an unbound name fails and binds nothing; a read returns
\* the value written last under the name and fails for a name never written.
C6_VariableTable ==
    Done =>
        LET n == op.name
            unknown == ~res.ok /\ res.err.msg = "Unknown variable" /\ res.err.a = n
        IN  /\ (op.kind = "DefVar" /\ n \notin DOMAIN pvars)
                  => /\ res.ok /\ res.val = op.kids[1].value
                     /\ vars = Put(pvars, n, op.kids[1].value)
            /\ (op.kind = "DefVar" /\ n \in DOMAIN pvars)
                  => /\ ~res.ok /\ res.err.msg = "Duplicate variable definition"
                     /\ res.err.a = n
                     /\ vars = pvars
            /\ (op.kind = "SetVar" /\ n \in DOMAIN pvars)
                  => /\ res.ok /\ res.val = op.kids[1].value
                     /\ vars = Put(pvars, n, op.kids[1].value)
            /\ (op.kind = "SetVar" /\ n \notin DOMAIN pvars)
                  => unknown /\ vars = pvars
            /\ op.kind = "GetVar"
                  => /\ vars = pvars
                     /\ IF n \in DOMAIN written
                        THEN res.ok /\ res.val = written[n]
                        ELSE unknown

\* var of a bound name, with another value, has failed
C6_Witness ==
    /\ Done /\ op.kind = "DefVar" /\ ~res.ok
    /\ op.name \in DOMAIN pvars
    /\ pvars[op.name] /= op.kids[1].value

\* C7: a call of an installed function with another number of arguments than
\* parameters fails with "Invalid arguments length" and leaves the caller's
\* variable and function tables as they were, whatever the arguments are.
C7_ArgumentsLength ==
    (/\ Done /\ op.kind = "Funcall"
     /\ op.name \in DOMAIN pfuncs
     /\ Len(op.kids) /= Len(pfuncs[op.name].params))
        => /\ ~res.ok
           /\ res.err.msg = "Invalid arguments length"
           /\ vars = pvars
           /\ funcs = pfuncs

\* a call with too few arguments, the first of which would have defined x
C7_Witness ==
    /\ Done /\ op.kind = "Funcall"
    /\ op.name \in DOMAIN pfuncs
    /\ 1 <= Len(op.kids) /\ Len(op.kids) < Len(pfuncs[op.name].params)
    /\ op.kids[1].kind = "DefVar"
    /\ op.kids[1].name \notin DOMAIN pvars

\* a call whose argument count matches: the binding loop and the body run
Called ==
    /\ Done /\ op.kind = "Funcall"
    /\ op.name \in DOMAIN pfuncs
    /\ Len(op.kids) = Len(pfuncs[op.name].params)

\* the names the argument expressions of the call define
ArgDefs == {op.kids[i].name : i \in {j \in 1..Len(op.kids) : op.kids[j].kind = "DefVar"}}

\* C8: across a call the caller keeps every binding with its value and gains
\* only what the argument expressions define, never a parameter or a local of
\* the callee; an argument that reads a variable reads the caller's; a body
\* read of a name that is no parameter fails, whether the caller binds it or
\* not.
C8_TablesDisjoint ==
    Called =>
        LET f == pfuncs[op.name]
        IN  /\ \A n \in DOMAIN pvars : n \in DOMAIN vars /\ vars[n] = pvars[n]
            /\ DOMAIN vars \ DOMAIN pvars \subseteq ArgDefs
            /\ (f.params = <<"x">> /\ f.body = <<GetVar("x")>> /\ op.kids = <<GetVar("z")>>)
                  => IF "z" \in DOMAIN pvars
                     THEN res.ok /\ res.val = pvars["z"]
                     ELSE ~res.ok /\ res.err.msg = "Unknown variable" /\ res.err.a = "z"
            /\ (/\ \A i \in 1..Len(op.kids) : op.kids[i] = One
                /\ Len(f.body) >= 1
                /\ f.body[1].kind = "GetVar"
                /\ f.body[1].name \notin Range(f.params))
                  => /\ ~res.ok /\ res.err.msg = "Unknown variable"
                     /\ res.err.a = f.body[1].name

\* the body has read z, which only the caller binds, next to a parameter x
\* that the caller binds too
C8_Witness ==
    /\ Called
    /\ {"z", "x"} \subseteq DOMAIN pvars
    /\ pfuncs[op.name].params = <<"x">>
    /\ pfuncs[op.name].body = <<GetVar("z")>>
    /\ op.kids = <<One>>
    /\ ~res.ok
    /\ vars = pvars

\* C9: a call inside a running body finds every function that the top-level
\* table held when the outer call began: no call fails with "Unknown function"
\* for an installed name, and foo, whose body calls bar (x + 1) with 1,
\* returns 2.
C9_BodySeesFunctions ==
    Done =>
        /\ (~res.ok /\ res.err.msg = "Unknown function") => res.err.a \notin DOMAIN pfuncs
        /\ (/\ Called /\ op.name = "foo" /\ "bar" \in DOMAIN pfuncs
            /\ pfuncs["bar"] = FuncOf(IncBar)
            /\ pfuncs["foo"].body = <<Funcall("bar", <<One>>)>>
            /\ \A i \in 1..Len(op.kids) : op.kids[i] = One)
              => res.ok /\ res.val = from_num(2)

\* C10: a definition evaluated by a running body is installed, without a
\* panic, in the table the caller sees.
C10_DefunInBody ==
    (/\ Called /\ res.ok
     /\ pfuncs[op.name].body = <<DefTar>>)
        => /\ "panic" \notin res.obs
           /\ "tar" \in DOMAIN funcs
           /\ funcs["tar"] = FuncOf(DefTar)

(***************************************************************************)
(* What a body of SpecBody is to do, read off its expressions alone: t is  *)
(* the only variable a callee can have.                                   *)
(***************************************************************************)
DefinesT(e) == e.kind = "DefVar" /\ e.name = "t"

TDefinedBefore(body, i) == \E j \in 1..(i - 1) : DefinesT(body[j])

\* expression i cannot succeed after the expressions before it did
FailsAt(body, i) ==
    \/ body[i].kind = "GetVar" /\ body[i].name = "u"
    \/ body[i].kind \in {"GetVar", "SetVar"} /\ body[i].name = "t" /\ ~TDefinedBefore(body, i)
    \/ DefinesT(body[i]) /\ TDefinedBefore(body, i)

\* the first expression that fails, Len(body) + 1 when none does
FirstFail(body) ==
    LET bad == {i \in 1..Len(body) : FailsAt(body, i)}
    IN  IF bad = {} THEN Len(body) + 1 ELSE CHOOSE i \in bad : \A j \in bad : i <= j

\* the value t holds once expressions 1..i succeeded
RECURSIVE TAfter(_, _)
TAfter(body, i) ==
    IF i = 0 THEN from_num(0)
    ELSE IF body[i].kind \in {"DefVar", "SetVar"} THEN body[i].kids[1].value
    ELSE TAfter(body, i - 1)

\* the value of expression i once expressions 1..i succeeded
ValueAt(body, i) ==
    IF body[i].kind = "Literal" THEN body[i].value ELSE TAfter(body, i)

\* the indexes of the body expressions the called function entered, in order
BodyLog == [k \in 1..Len(res.log) |-> res.log[k].i]

CallsFoo == Done /\ op = Funcall("foo", <<>>) /\ "foo" \in DOMAIN pfuncs

\* C11: a call evaluates the body expressions in order, each once and up to
\* the first that fails; it returns the value of the last one, 0 for an empty
\* body, or the first failure, and leaves the caller's variables alone
C11_BodyInOrder ==
    CallsFoo =>
        LET body == pfuncs["foo"].body
            n    == Len(body)
            f    == FirstFail(body)
            last == IF f <= n THEN f ELSE n
        IN  /\ \A k \in 1..Len(res.log) :
                    res.log[k].ev = "body" /\ res.log[k].d = MaxDepth - 1
            /\ BodyLog = [k \in 1..last |-> k]
            /\ res.ok <=> f = n + 1
            /\ res.ok => res.val = (IF n = 0 THEN from_num(0) ELSE ValueAt(body, n))
            /\ vars = pvars /\ funcs = pfuncs

\* a body of two expressions whose first fails: only the first was entered
C11_Witness ==
    /\ CallsFoo
    /\ Len(pfuncs["foo"].body) = 2
    /\ FailsAt(pfuncs["foo"].body, 1)
    /\ ~res.ok
    /\ BodyLog = <<1>>

(***************************************************************************)
(* Conditionals.  What a condition or a branch of SpecCond does is read    *)
(* off the expression: the variable or the function it adds.               *)
(***************************************************************************)
IsConditional == Done /\ op.kind = "Conditional"

VarsOf(e) == IF e.kind = "DefVar" THEN {e.name} ELSE {}

FuncsOf(e) == IF e.kind = "Defun" THEN {e.name} ELSE {}

BoolCond(c) == c \in {Yes, No} \/ c = DefVar("c", Yes)

NumCond(c) == c.kind = "Literal" /\ is_num(c.value)

\* the condition cannot be evaluated from the tables the evaluation began with
CondFails(c) ==
    \/ c.kind = "GetVar" /\ c.name \notin DOMAIN pvars
    \/ c.kind = "DefVar" /\ c.name \in DOMAIN pvars

\* the branch a boolean condition selects: 2 is true_code, 3 is false_code
Selected(c) == IF c = No THEN 3 ELSE 2

CondLog == [k \in 1..Len(res.log) |-> res.log[k].i]

\* C12: a conditional evaluates its condition once and then exactly one
\* branch, the one the condition selects; the variables and functions it adds
\* are those of the condition and of that branch alone, and an untaken
\* one-armed conditional returns false and changes nothing
C12_OneBranch ==
    IsConditional =>
        LET c == op.kids[1]
        IN  /\ \A k \in 1..Len(res.log) :
                    res.log[k].ev = "cond" /\ res.log[k].d = MaxDepth
            /\ CondFails(c) => CondLog = <<1>> /\ ~res.ok /\ vars = pvars /\ funcs = pfuncs
            /\ ~CondFails(c) => \/ CondLog = <<1, 2>>
                                \/ CondLog = <<1, 3>>
            /\ (BoolCond(c) /\ ~CondFails(c)) =>
                    LET taken == op.kids[Selected(c)]
                    IN  /\ CondLog = <<1, Selected(c)>>
                        /\ (DOMAIN vars) \ (DOMAIN pvars) \subseteq VarsOf(c) \cup VarsOf(taken)
                        /\ (DOMAIN funcs) \ (DOMAIN pfuncs) \subseteq FuncsOf(taken)
                        /\ \A n \in DOMAIN pvars : vars[n] = pvars[n]
                        /\ \A n \in DOMAIN pfuncs \ FuncsOf(taken) : funcs[n] = pfuncs[n]
            /\ (c = No /\ op.kids[3] = No) =>
                    /\ res.ok /\ res.val = from_bool(FALSE)
                    /\ vars = pvars /\ funcs = pfuncs

\* a false condition with two branches that each would define a variable:
\* only the variable of the false branch exists afterwards
C12_Witness ==
    /\ IsConditional
    /\ op = Conditional(No, DefVar("a", One), DefVar("b", Two))
    /\ res.ok
    /\ "b" \in DOMAIN vars
    /\ "a" \notin DOMAIN vars

\* C13: a conditional whose condition evaluates to a number fails with an
\* evaluation error and evaluates neither branch
C13_ConditionMustBeBoolean ==
    (IsConditional /\ NumCond(op.kids[1])) =>
        /\ ~res.ok
        /\ CondLog = <<1>>
        /\ vars = pvars /\ funcs = pfuncs

(***************************************************************************)
(* Operators on literal operands.                                          *)
(***************************************************************************)
IsBinary == Done /\ op.kind = "BinaryOp"

Lhs == op.kids[1].value

Rhs == op.kids[2].value

\* C14: an arithmetic operator with a boolean operand, and a logical operator
\* with a numeric operand, fails with an evaluation error
C14_StrictlyTyped ==
    /\ (IsBinary /\ op.name \in ArithOps /\ (is_bool(Lhs) \/ is_bool(Rhs))) => ~res.ok
    /\ (IsBinary /\ op.name \in LogicalOps /\ (is_num(Lhs) \/ is_num(Rhs))) => ~res.ok
    /\ (Done /\ op.kind = "UnaryOp" /\ op.name = "not" /\ is_num(op.kids[1].value)) => ~res.ok

\* C15: a comparison of one number with one boolean fails with an evaluation
\* error
C15_CrossTagComparisonFails ==
    (IsBinary /\ op.name \in CompareOps /\ Lhs.t /= Rhs.t) => ~res.ok

(***************************************************************************)
(* The parser's buffer.                                                    *)
(***************************************************************************)
Parsed == Done /\ pin.called

\* C16: after a parse call that returned an error the token buffer is empty,
\* whatever it held before the call, so the next call starts as on a fresh
\* parser
C16_ErrorClearsBuffer ==
    /\ (Parsed /\ ~pin.ok) => tokens = <<>>
    /\ pin.afterErr => (IF pin.called THEN pin.before ELSE tokens) = <<>>

\* a call that fails on a parser holding the lines of an unfinished definition
C16_Witness ==
    /\ Parsed
    /\ ~pin.ok
    /\ pin.before /= <<>>
    /\ tokens = <<>>

\* C18: after a parse call the buffer is empty when the call returned an error
\* or a tree, and tokens left after one expression are the error "Invalid
\* expression" with the text of the call; it is non-empty only with NoOp, and
\* then starts with the def token and does not end with the end token
C18_BufferStates ==
    Parsed =>
        /\ ~pin.ok => tokens = <<>>
        /\ (pin.ok /\ pin.code /= NoOp) => tokens = <<>>
        /\ pin.err.msg = "Invalid expression" => ~pin.ok /\ pin.err.text = pin.text
        /\ (pin.before = <<>> /\ pin.text = <<"f", "f">>) =>
                ~pin.ok /\ pin.err.msg = "Invalid expression"
        /\ (pin.ok /\ pin.code = NoOp) => tokens /= <<>>
        /\ tokens /= <<>> =>
                /\ pin.ok /\ pin.code = NoOp
                /\ tokens[1] = Token("Defun", "def")
                /\ tokens[Len(tokens)].ttype /= "End"

\* a second line of a definition that is not finished yet
C18_Witness ==
    /\ Parsed
    /\ pin.before /= <<>>
    /\ pin.ok /\ pin.code = NoOp
    /\ Len(tokens) > Len(pin.before)

\* C17: a definition that one parse call accepts, fed in pieces cut at any
\* word boundaries, gives NoOp for every call but the last and the same
\* definition on the last call
C17_SplitDefinition ==
    (Parsed /\ pin.outs /= <<>>) =>
        LET n == Len(pin.outs)
        IN  /\ \A k \in 1..(n - 1) : pin.outs[k].ok /\ pin.outs[k].code = NoOp
            /\ pin.outs[n].ok
            /\ pin.outs[n].code = parse(<<>>, pin.text).code

(***************************************************************************)
(* The driver's lines.                                                     *)
(***************************************************************************)
Drove == Done /\ pin.called

\* the reserved words: operators, constants, keywords, true and false
Reserved == BinaryOpNames \cup UnaryOpNames \cup SpecialFtnNames \cup ConstNames
            \cup {"true", "false", "var", "=", "def", "call", "begin", "end", "cend",
                  "if", "?", ":", "fi"}

\* the one expression typed, and how it ended
Typed == pin.text[1][1]

TypedOut == pin.outs[1]

RejectedAs(msg, name) ==
    /\ ~TypedOut.ok
    /\ TypedOut.stage = "parse"
    /\ TypedOut.msg = msg
    /\ TypedOut.a = name

\* C19: no key of the top-level variable table, of a callee's variable table
\* or of the function table is a reserved word; a variable definition or
\* assignment whose name is not an identifier, and a function definition
\* whose name or parameter is reserved, is rejected by parse with its message
C19_NoReservedKey ==
    /\ (DOMAIN vars) \cap Reserved = {}
    /\ (DOMAIN funcs) \cap Reserved = {}
    /\ pin.keys \cap Reserved = {}
    /\ Drove =>
          /\ (Typed[1] = "var" /\ Typed[2] \notin IdentWords) =>
                RejectedAs("Invalid variable definition name", Typed[2])
          /\ (Typed[1] = "=" /\ Typed[2] \notin IdentWords) =>
                RejectedAs("Invalid set variable name", Typed[2])
          /\ (Typed[1] = "def" /\ Typed[2] \in Reserved) =>
                RejectedAs("Invalid reserved function name definition", Typed[2])
          /\ (Typed[1] = "def" /\ Typed[2] \notin Reserved /\ Typed[3] \in Reserved \ {"begin"}) =>
                RejectedAs("Invalid reserved function parameter definition", Typed[3])

\* a definition whose parameter is a constant is rejected
C19_Witness ==
    /\ Drove
    /\ Typed = <<"def", "f", "pi", "begin", "pi", "end">>
    /\ RejectedAs("Invalid reserved function parameter definition", "pi")
    /\ "f" \notin DOMAIN funcs

\* expression ei of line li was parsed
Tried(li, ei) == \E k \in 1..Len(pin.outs) : pin.outs[k].line = li /\ pin.outs[k].expr = ei

Failed(li, ei) ==
    \E k \in 1..Len(pin.outs) :
        pin.outs[k].line = li /\ pin.outs[k].expr = ei /\ ~pin.outs[k].ok

\* the expressions of a line that are not empty, by index
Exprs(line) == {ei \in 1..Len(line) : line[ei] /= <<>>}

\* C20: an expression that fails keeps the later expressions of its line from
\* being evaluated, and every line, whatever the lines before it did, has its
\* first expression parsed and evaluated
C20_FailureEndsLineOnly ==
    Drove =>
        \A li \in 1..Len(pin.text) :
            LET line == pin.text[li]
            IN  /\ \A ei \in Exprs(line) :
                      (\E ej \in Exprs(line) : ej < ei /\ Failed(li, ej)) => ~Tried(li, ei)
                /\ \A ei \in Exprs(line) :
                      (\A ej \in Exprs(line) : ei <= ej) => Tried(li, ei)

\* the words of a file of one-expression lines, in order
RECURSIVE FileWords(_)
FileWords(lines) ==
    IF lines = <<>> THEN <<>> ELSE lines[1][1] \o FileWords(Tail(lines))

\* a file read with an empty token buffer whose lines, two or more, are the
\* pieces of `def f begin 1 end`
SplitFile ==
    /\ Drove /\ pin.before = <<>>
    /\ Len(pin.text) >= 2
    /\ \A li \in 1..Len(pin.text) : Len(pin.text[li]) = 1
    /\ FileWords(pin.text) = <<"def", "f", "begin", "1", "end">>

\* C21: a definition fed to the driver line by line reports nothing for the
\* lines before its closing line, no line of it is reported as an error, all
\* its lines are read, and the function is installed when the closing line
\* has been read
C21_DefinitionAcrossLines ==
    SplitFile =>
        /\ \A k \in 1..Len(pin.outs) : pin.outs[k].ok /\ pin.outs[k].line = Len(pin.text)
        /\ Tried(Len(pin.text), 1)
        /\ "f" \in DOMAIN funcs
        /\ tokens = <<>>

\* what the typed expression evaluates to when last is prev and it succeeds
ValueOf(t, prev) ==
    CASE t = <<"1">> -> from_num(1)
      [] t = <<"true">> -> from_bool(TRUE)
      [] t = <<"=", "last", "5">> -> from_num(5)
      [] t = <<"var", "x", "2">> -> from_num(2)
      [] t = <<"==", "last", "1">> -> from_bool(prev = from_num(1))
      [] OTHER -> prev

\* the typed expression parses and evaluates when the variables are tab
Succeeds(t, tab) ==
    \/ t \in {<<"1">>, <<"true">>, <<"=", "last", "5">>, <<"==", "last", "1">>}
    \/ t = <<"var", "x", "2">> /\ "x" \notin DOMAIN tab

WasReset == Typed = <<":reset">>

NoPanic == \A k \in 1..Len(pin.outs) : pin.outs[k].stage /= "panic"

LastStep(onFailure) ==
    /\ "last" \in DOMAIN vars
    /\ Drove =>
          /\ NoPanic
          /\ WasReset => vars["last"] = from_num(0)
          /\ (~WasReset /\ Succeeds(Typed, pvars)) =>
                 (TypedOut.ok /\ vars["last"] = ValueOf(Typed, pvars["last"]))
          /\ (~WasReset /\ ~Succeeds(Typed, pvars)) =>
                 (~TypedOut.ok /\ vars["last"] = onFailure)

\* C22 as stated: last is 0 at start-up, is always bound, is 0 after a reset,
\* is the value of the expression after an expression that succeeded and is
\* what it was after an expression that failed, and updating it never fails
C22_LastIsLatestResult ==
    /\ VarGet(vars, "last").val = from_num(0)
    /\ [](LastStep(pvars["last"]))

\* C22, amended: as above, but an expression that fails after it assigned
\* last leaves last as assigned
C22_LastTracksResult ==
    /\ VarGet(vars, "last").val = from_num(0)
    /\ [](LastStep(IF Typed = <<"+", "=", "last", "2", "u">>
                    THEN from_num(2) ELSE pvars["last"]))

\* true was typed after last had become 5, and last is true
C22_Witness ==
    /\ Drove /\ Typed = <<"true">> /\ TypedOut.ok
    /\ pvars["last"] = from_num(5)
    /\ vars["last"] = from_bool(TRUE)

\* sub-expression e fails when the variables are tab
SubFails(e, tab) ==
    \/ e.kind = "GetVar" /\ e.name \notin DOMAIN tab
    \/ e.kind = "DefVar" /\ e.name \in DOMAIN tab

\* the error of a sub-expression that fails
SubError(e) ==
    IF e.kind = "GetVar" THEN ErrMsg("Unknown variable", e.name)
    ELSE ErrMsg("Duplicate variable definition", e.name)

\* the variables after sub-expression e succeeded on tab
SubAfter(e, tab) ==
    IF e.kind = "DefVar" THEN Put(tab, e.name, e.kids[1].value) ELSE tab

\* the value of sub-expression e that succeeds on tab
SubValue(e, tab) ==
    CASE e.kind = "GetVar" -> tab[e.name]
      [] e.kind = "DefVar" -> e.kids[1].value
      [] OTHER -> e.value

TwoParts == Done /\ op.kind \in {"BinaryOp", "Funcall"} /\ Len(op.kids) = 2

FailedWith(e) == ~res.ok /\ res.err.msg = SubError(e).msg /\ res.err.a = SubError(e).a

\* C23: when the left operand or first argument fails nothing else is
\* evaluated and its error is the result; when it succeeds and the right one
\* fails, the effect of the left one is kept, the body is not entered and the
\* error of the right one is the result; when both succeed the right one saw
\* the effect of the left one, and the operator or the body got both values
C23_LeftToRight ==
    TwoParts =>
        LET l == op.kids[1]
            r == op.kids[2]
            mid == SubAfter(l, pvars)
        IN  /\ SubFails(l, pvars) =>
                  (FailedWith(l) /\ vars = pvars /\ res.log = <<>>)
            /\ (~SubFails(l, pvars) /\ SubFails(r, mid)) =>
                  (FailedWith(r) /\ vars = mid /\ res.log = <<>>)
            /\ (~SubFails(l, pvars) /\ ~SubFails(r, mid)) =>
                  /\ vars = SubAfter(r, mid)
                  /\ op.kind = "Funcall" =>
                        (res.ok /\ res.val = SubValue(r, mid) /\ Len(res.log) = 1)
                  /\ op.kind = "BinaryOp" =>
                        IF is_num(SubValue(l, pvars)) /\ is_num(SubValue(r, mid))
                        THEN res.ok /\ res.val = from_num(SubValue(l, pvars).v + SubValue(r, mid).v)
                        ELSE ~res.ok /\ res.err.msg \notin {SubError(l).msg, SubError(r).msg}

\* pair was called with var a 1 and u: a is defined, the call failed on u and
\* the body was not entered
C23_Witness ==
    /\ Done /\ op = Funcall("pair", <<DefVar("a", One), GetVar("u")>>)
    /\ "a" \notin DOMAIN pvars /\ "a" \in DOMAIN vars
    /\ ~res.ok /\ res.err.a = "u" /\ res.log = <<>>

\* check_cross_recursive was applied: res holds the run, op the definition
CrossChecked == Done /\ "check" \in res.obs

\* the names taken from the worklist, in order
Taken == [k \in 1..Len(res.log) |-> res.log[k].nm]

\* C24: check_cross_recursive ends, whatever the table (functions that call
\* one another in cycles, themselves or names that are not installed): the
\* loop is not cut, no name is taken from the worklist twice, no name is put
\* on the worklist that is visited or was taken before, and the turns are no
\* more than the names
C24_CrossTerminates ==
    CrossChecked =>
        /\ "cut" \notin res.obs
        /\ \A i, j \in 1..Len(Taken) : Taken[i] = Taken[j] => i = j
        /\ \A i \in 1..Len(res.log) :
              /\ res.log[i].ins \cap res.log[i].visited = {}
              /\ \A j \in 1..i : Taken[j] \notin res.log[i].ins
        /\ Len(Taken) <= Len(AllNames)

\* bar and tar call each other and themselves, and the check of foo calling
\* bar took both and accepted
C24_Witness ==
    /\ CrossChecked /\ res.ok
    /\ {"bar", "tar"} \subseteq DOMAIN pfuncs
    /\ pfuncs["bar"] = make_func({"bar", "tar"})
    /\ pfuncs["tar"] = make_func({"bar", "tar"})
    /\ Taken = <<"bar", "tar">>

\* the table of test_check_cross_recursive3
TableThree ==
    [n \in {"bar", "tar", "zar"} |->
        CASE n = "bar" -> make_func({"tar", "zar"})
          [] n = "tar" -> make_func({"foo", "zar"})
          [] n = "zar" -> make_func({"car"})]

CheckedThree ==
    CrossChecked /\ pfuncs = TableThree /\ op.kids = make_func({"zar", "bar"}).body

\* C25: the function named with a rejection is installed, calls the name
\* under definition in its body, is not that name, and is reached from the
\* proposed body through calls between installed functions; the check of foo
\* calling zar and bar on the table of test_check_cross_recursive3 names tar
C25_RejectionNamesCaller ==
    /\ (CrossChecked /\ ~res.ok) =>
          LET nm     == res.err.b
              name   == op.name
              others == [g \in DOMAIN pfuncs \ {name} |-> pfuncs[g]]
          IN  /\ res.err.a = name
              /\ nm \in DOMAIN pfuncs
              /\ name \in Range(CallNames(pfuncs[nm].body))
              /\ nm /= name
              /\ nm \in Reached(others, Range(CallNames(op.kids)) \ {name}, {})
    /\ CheckedThree => (~res.ok /\ res.err.b = "tar")

\* the check of test_check_cross_recursive3 was made and named tar, after it
\* took bar from the worklist
C25_Witness ==
    /\ CheckedThree /\ ~res.ok /\ res.err.b = "tar"
    /\ \E k \in 1..Len(Taken) : Taken[k] = "bar"

\* the runs of the check that was made, over every worklist order
RunsOfCheck == CrossCheckRuns(op.name, FuncOf(op), pfuncs, CrossFuel)

\* an installed function other than `name`, reached from the body of the
\* definition through calls between such functions, calls `name`
CalledBack ==
    LET others == [g \in DOMAIN pfuncs \ {op.name} |-> pfuncs[g]]
    IN  \E g \in Reached(others, Range(CallNames(op.kids)) \ {op.name}, {}) :
            op.name \in Range(CallNames(pfuncs[g].body))

\* C30: every order of the worklist gives the verdict of the run that was
\* made, for the same name, body and table: a rejection exactly when a
\* function reached from the body calls the name under definition
C30_VerdictIgnoresOrder ==
    CrossChecked =>
        /\ \A run \in RunsOfCheck : run.rejected = ~res.ok
        /\ ~res.ok <=> CalledBack

\* a rejection that names bar, where another order of the worklist names tar
C30_Witness ==
    /\ CrossChecked /\ ~res.ok /\ res.err.b = "bar"
    /\ \E run \in RunsOfCheck : run.rejected /\ run.nm = "tar"

\* Defun::eval was applied to a definition
Defined == Done /\ op.kind = "Defun" /\ "check" \notin res.obs

\* check_dual_recursive rejects the definition held by op on the table before
DualRejects == check_dual_recursive(op.name, FuncOf(op), pfuncs).rejected

DualImpliesCross(message) ==
    /\ (CrossChecked /\ DualRejects) => ~res.ok
    /\ (Defined /\ DualRejects) =>
          /\ ~res.ok
          /\ funcs = pfuncs
          /\ res.err.msg = message

\* C29 as stated: a definition that check_dual_recursive rejects is rejected
\* by check_cross_recursive, and Defun::eval rejects it and reports it as
\* cross recursive
C29_DualReportedAsCross == DualImpliesCross("Cross recursive functions")

\* C29, amended: as above, but a definition whose body calls its own name as
\* well is reported as self recursive
C29_DualRejectedByDefun ==
    DualImpliesCross(IF op.name \in Range(CallNames(op.kids))
                     THEN "Self recursive function"
                     ELSE "Cross recursive functions")

\* bar calls foo, and the definition of foo calling bar was rejected as cross
\* recursive with bar
C29_Witness ==
    /\ Defined /\ DualRejects
    /\ op.kids = make_func({"bar"}).body
    /\ ~res.ok /\ res.err.msg = "Cross recursive functions" /\ res.err.b = "bar"

\* C26: the arithmetic operators take true as 1 and false as 0, and and or
\* take a number as true when it is not 0; none of them returns an error
C26_OperatorsCoerce ==
    (IsBinary /\ op.name \in ArithOps \cup LogicalOps) =>
        /\ res.ok
        /\ op.name = "+" => res.val = from_num(Lhs.v + Rhs.v)
        /\ op.name = "max" => res.val = from_num(IF Lhs.v >= Rhs.v THEN Lhs.v ELSE Rhs.v)
        /\ op.name = "and" => res.val = from_bool(Lhs.v /= 0 /\ Rhs.v /= 0)
        /\ op.name = "or" => res.val = from_bool(Lhs.v /= 0 \/ Rhs.v /= 0)

\* C27: when tokenize fails with an invalid-identifier error, the pending
\* buffer holds no token of the text of that call: it is as it was before
C27_FailedTokenizeDiscards ==
    (Done /\ pin.called /\ ~pin.ok /\ pin.err.msg = "Invalid identifier")
        => tokens = pin.before

EnvNow == [vars |-> vars, funcs |-> funcs]

EnvBefore == [vars |-> pvars, funcs |-> pfuncs]

WasEnvReset == Done /\ "reset" \in res.obs

\* the names that get_var and get_func find
Found ==
    Cardinality({n \in VNames : VarGet(vars, n).ok})
        + Cardinality({f \in {"f", "g"} : f \in DOMAIN funcs})

\* C28: len is the number of variables and functions that are found,
\* is_empty holds exactly when len is 0, a define that succeeds and the first
\* definition of a function raise len by one, a set, a define that fails and
\* a definition of an installed function leave it, and reset empties both
\* tables
C28_LenCountsEntries ==
    /\ Environment_len(EnvNow) = Found
    /\ Environment_is_empty(EnvNow) <=> Environment_len(EnvNow) = 0
    /\ (Done /\ ~WasEnvReset) =>
          LET before == Environment_len(EnvBefore)
              after  == Environment_len(EnvNow)
          IN  /\ op.kind = "DefVar" =>
                    /\ res.ok <=> op.name \notin DOMAIN pvars
                    /\ after = IF res.ok THEN before + 1 ELSE before
              /\ op.kind = "SetVar" => after = before
              /\ op.kind = "Defun" =>
                    /\ res.ok
                    /\ after = IF op.name \in DOMAIN pfuncs THEN before ELSE before + 1
    /\ WasEnvReset =>
          /\ Environment_len(EnvNow) = 0 /\ Environment_is_empty(EnvNow)
          /\ vars = EmptyTable /\ funcs = EmptyTable

\* an environment of two variables and a function was reset
C28_Witness ==
    /\ WasEnvReset
    /\ Environment_len(EnvBefore) = 3 /\ TableLen(pfuncs) = 1
    /\ Environment_len(EnvNow) = 0

====
